---- MODULE Spec2Model ----
(***************************************************************************)
(* Verification model of the google_ads_alert core:                        *)
(*   - GoogleAdsCostService: the retry loop of _execute_cost_query and the *)
(*     row aggregation of _extract_cost_micros (google_ads_client.py);     *)
(*   - the schedule helpers generate_daily_schedule,                       *)
(*     find_next_run_datetime, generate_upcoming_run_windows and           *)
(*     generate_upcoming_run_times (schedule.py);                          *)
(*   - the forecasts calculate_daily_projection and calculate_monthly_pace *)
(*     (forecast.py), computed in binary64 floats;                         *)
(*   - the reporting windows and cost summaries (google_ads_client.py);    *)
(*   - one run of run_once (cli.py) through build_forecast_snapshot and    *)
(*     dispatch_slack_alert (workflow.py);                                 *)
(*   - load_slack_config (config.py) on environments of texts;             *)
(*   - the demo transport (transports/demo.py) behind the cost service;    *)
(*   - two calls of one cost service that overlap;                         *)
(*   - run_scheduler and the jobs it registers (cli.py).                   *)
(*                                                                         *)
(* Modelling conventions                                                   *)
(*   - Backoff values are whole numbers of an arbitrary time unit; floats  *)
(*     represent those products exactly.                                   *)
(*   - An exception is a record [cls, attempt]: the attempt in which it    *)
(*     was raised gives it its identity. OverflowError and ValueError come *)
(*     from int() on a row, the other classes from the transport.          *)
(*   - retryable_exceptions is a set of exception classes below Exception; *)
(*     KeyboardInterrupt stands for the BaseException-only classes, which  *)
(*     `except Exception` never catches.                                   *)
(***************************************************************************)
EXTENDS Integers, Sequences, FiniteSets, TLC

VARIABLES
    retry_config,   \* GoogleAdsCostService._retry_config (fixed at construction)
    pc,             \* position of the fetch: idle, loop, iterating, returned, raised
    kind,           \* which fetch runs: "daily" or "month_to_date"
    attempt,        \* local `attempt` of _execute_cost_query
    delay,          \* local `delay`
    last_error,     \* local `last_error`
    total_micros,   \* local `total_micros`
    rows,           \* rows summed from the current attempt's iterator so far
    log,            \* calls made on the injected collaborators: search and sleep
    thrown,         \* the latest exception raised into the try block
    transport_failures, \* how many attempts the transport itself has failed
    result,         \* the summary the fetch returned, NoSummary before
    raised,         \* the exception the fetch raised, NoError before
    discarded,      \* whether a failed attempt of the fetch had summed rows to a total other than 0
    request,        \* the arguments of a call of a schedule helper
    response        \* what that call returned or raised

fetchVars == <<retry_config, pc, kind, attempt, delay, last_error, total_micros,
               rows, log, thrown, transport_failures, result, raised, discarded>>

scheduleVars == <<request, response>>

----------------------------------------------------------------------------
(* Bounds of the model *)

\* The largest max_attempts a RetryConfig of the model holds.
MaxAttemptsBound == 3

\* The largest number of rows one search result yields.
MaxRows == 2

\* Values offered to RetryConfig before __post_init__ filters them.
InitialBackoffChoices == {-1, 0, 1, 3}

MultiplierChoices == {0, 1, 2}

----------------------------------------------------------------------------
(* Exceptions *)

NoError == [cls |-> "None", attempt |-> 0]

\* DailyCostSummary / MonthToDateCostSummary, lines 85-114, reduced to the
\* fields the retry loop decides.
Summary(k, total) == [kind |-> k, total_cost_micros |-> total]

NoSummary == Summary("none", 0)

\* Classes the transport may raise from search() or while being iterated.
TransportErrorClasses == {"RuntimeError", "PermissionError", "KeyboardInterrupt"}

\* Classes int() raises inside _extract_cost_micros.
ExtractErrorClasses == {"OverflowError", "ValueError"}

\* `except Exception` (line 212) catches every class but the BaseException-only ones.
IsException(exc) == exc.cls # "KeyboardInterrupt"

\* RetryConfig.retryable_exceptions: the default (Exception,) matches every
\* Exception subclass; a narrowed tuple matches RuntimeError only.
DefaultRetryable == {"RuntimeError", "PermissionError", "OverflowError", "ValueError"}

RetryableChoices == {DefaultRetryable, {"RuntimeError"}}

\* RetryConfig with the checks of __post_init__.
RetryConfigs ==
    { c \in [max_attempts : 0..MaxAttemptsBound,
             initial_backoff_seconds : InitialBackoffChoices,
             backoff_multiplier : MultiplierChoices,
             retryable_exceptions : RetryableChoices \cup {{}}] :
        /\ ~(c.max_attempts < 1)
        /\ ~(c.initial_backoff_seconds < 0)
        /\ ~(c.backoff_multiplier < 1)
        /\ c.retryable_exceptions # {} }

is_retryable(exc) == exc.cls \in retry_config.retryable_exceptions

----------------------------------------------------------------------------
(* Rows and _extract_cost_micros *)

\* A cost value: t is its Python type; s the text of a str; n the integer of
\* an int; h the numerator of a finite float counted in halves (h / 2);
\* f tells a float apart: "finite", "inf" or "nan".
Val(t, s, n, h, f) == [t |-> t, s |-> s, n |-> n, h |-> h, f |-> f]

NoneVal == Val("NoneType", "", 0, 0, "")
StrVal(s) == Val("str", s, 0, 0, "")
IntVal(n) == Val("int", "", n, 0, "")
FloatVal(h) == Val("float", "", 0, h, "finite")
InfVal == Val("float", "", 0, 0, "inf")
NanVal == Val("float", "", 0, 0, "nan")

\* A row: is_dict tells whether the row is a dict; has_metrics whether it has
\* the key "metrics"; metrics_is_dict whether that value is a dict; has_cost
\* whether it holds "cost_micros"; cost the value under that key.
Row(d, hm, md, hc, v) ==
    [is_dict |-> d, has_metrics |-> hm, metrics_is_dict |-> md, has_cost |-> hc, cost |-> v]

CostRow(v) == Row(TRUE, TRUE, TRUE, TRUE, v)

RowShapes ==
    { Row(TRUE, FALSE, FALSE, FALSE, NoneVal),    \* {}
      Row(TRUE, TRUE, FALSE, FALSE, NoneVal),     \* {"metrics": 5}
      Row(TRUE, TRUE, TRUE, FALSE, NoneVal),      \* {"metrics": {}}
      CostRow(NoneVal),                           \* cost_micros: None
      CostRow(StrVal("abc")),                     \* non-numeric string
      CostRow(StrVal("2")),                       \* integer string
      CostRow(IntVal(1)),
      CostRow(FloatVal(5)),                       \* 2.5
      CostRow(FloatVal(-3)),                      \* -1.5
      CostRow(InfVal),
      CostRow(NanVal) }

Ok(n) == [ok |-> TRUE, value |-> n, cls |-> "None"]
Err(c) == [ok |-> FALSE, value |-> 0, cls |-> c]

\* int(str): the integer literals of the model parse, every other text
\* raises ValueError.
IntLiterals == {<<"0", 0>>, <<"1", 1>>, <<"2", 2>>, <<"3", 3>>}

int_of_str(s) ==
    IF \E p \in IntLiterals : p[1] = s
    THEN Ok((CHOOSE p \in IntLiterals : p[1] = s)[2])
    ELSE Err("ValueError")

\* Mutant: a float is floored instead of truncated toward zero.
int_of_float_Floors(v) ==
    IF v.f = "inf" THEN Err("OverflowError")
    ELSE IF v.f = "nan" THEN Err("ValueError")
    ELSE Ok(v.h \div 2)

\* int(float): truncation toward zero; OverflowError for an infinity and
\* ValueError for a NaN.
int_of_float(v) ==
    IF v.f = "inf" THEN Err("OverflowError")
    ELSE IF v.f = "nan" THEN Err("ValueError")
    ELSE IF v.h >= 0 THEN Ok(v.h \div 2)
    ELSE Ok(-((-v.h) \div 2))

\* _extract_cost_micros, lines 163-180.
extract_cost_micros(row) ==
    IF ~(row.is_dict /\ row.has_metrics) THEN Ok(0)
    ELSE IF ~(row.metrics_is_dict /\ row.has_cost) THEN Ok(0)
    ELSE LET value == row.cost IN
         IF value.t = "str"
         THEN LET r == int_of_str(value.s) IN IF r.ok THEN r ELSE Ok(0)
         ELSE IF value.t \in {"int", "float"}
         THEN IF value.t = "int" THEN Ok(value.n) ELSE int_of_float(value)
         ELSE Ok(0)

----------------------------------------------------------------------------
(* The collaborators' call log *)

SearchEvent == [op |-> "search", arg |-> 0]
SleepEvent(d) == [op |-> "sleep", arg |-> d]

RECURSIVE CountOp(_, _)
CountOp(lg, op) ==
    IF lg = <<>> THEN 0
    ELSE (IF Head(lg).op = op THEN 1 ELSE 0) + CountOp(Tail(lg), op)

NumSearch == CountOp(log, "search")
NumSleep == CountOp(log, "sleep")

RECURSIVE SleepArgs(_)
SleepArgs(lg) ==
    IF lg = <<>> THEN <<>>
    ELSE IF Head(lg).op = "sleep" THEN <<Head(lg).arg>> \o SleepArgs(Tail(lg))
    ELSE SleepArgs(Tail(lg))

----------------------------------------------------------------------------
(* _execute_cost_query, lines 198-223 *)

\* line 205: the loop condition.
LoopCondition(att) == att < retry_config.max_attempts

\* Mutant: the attempt counter is not advanced.
NextAttempt_NoIncrement(att) == att

\* Mutant: the attempt counter stays at 1.
NextAttempt_StaysAtOne(att) == 1

\* line 206: attempt += 1.
NextAttempt(att) == att + 1

\* Mutant: every caught error is retried while attempts remain.
ShouldRaise_IgnoresRetryable(exc, att) == att >= retry_config.max_attempts

\* Mutant: the last attempt's failure is followed by one more backoff.
ShouldRaise_OffByOne(exc, att) == ~is_retryable(exc) \/ att > retry_config.max_attempts

\* line 214: the error is re-raised when it is not retryable or no attempt is left.
ShouldRaise(exc, att) == ~is_retryable(exc) \/ att >= retry_config.max_attempts

\* line 217: the sleep is skipped for a zero delay.
ShouldSleep(d) == d > 0

\* Mutant: the backoff grows by addition.
NextDelay_Additive(d) == d + retry_config.backoff_multiplier

\* Mutant: the total of the attempt before is kept.
AttemptTotal_Carried(carried) == carried

\* line 208: total_micros = 0 at the start of every attempt.
AttemptTotal(carried) == 0

\* line 219: delay *= backoff_multiplier.
NextDelay(d) == d * retry_config.backoff_multiplier

\* The injected sleep returns or raises.
SleepOutcomes == {"returns", "raises"}

\* An exception `exc` reaches the try block in attempt `att`, the log being
\* `lg` at that point: lines 212-219.
OnException(exc, att, lg) ==
    /\ thrown' = exc
    /\ rows' = <<>>
    /\ IF ~IsException(exc)
       THEN /\ pc' = "raised"
            /\ raised' = exc
            /\ log' = lg
            /\ UNCHANGED <<last_error, delay>>
       ELSE /\ last_error' = exc
            /\ IF ShouldRaise(exc, att)
               THEN /\ pc' = "raised"
                    /\ raised' = exc
                    /\ log' = lg
                    /\ UNCHANGED delay
               ELSE IF ShouldSleep(delay)
               THEN \E outcome \in SleepOutcomes :
                       /\ log' = Append(lg, SleepEvent(delay))
                       /\ IF outcome = "returns"
                          THEN /\ delay' = NextDelay(delay)
                               /\ pc' = "loop"
                               /\ UNCHANGED raised
                          ELSE /\ pc' = "raised"
                               /\ raised' = [cls |-> "SleepError", attempt |-> att]
                               /\ UNCHANGED delay
               ELSE /\ delay' = NextDelay(delay)
                    /\ pc' = "loop"
                    /\ log' = lg
                    /\ UNCHANGED raised

\* The fetch of kind `k` enters _execute_cost_query: lines 199-203.
EnterCostQuery(k) ==
    /\ kind' = k
    /\ pc' = "loop"
    /\ attempt' = 0
    /\ delay' = retry_config.initial_backoff_seconds
    /\ last_error' = NoError
    /\ total_micros' = 0
    /\ rows' = <<>>
    /\ log' = <<>>
    /\ thrown' = NoError
    /\ transport_failures' = 0
    /\ result' = NoSummary
    /\ raised' = NoError
    /\ discarded' = FALSE
    /\ UNCHANGED retry_config

\* fetch_daily_cost / fetch_month_to_date_cost are called. A finished
\* service accepts the next fetch.
StartFetch ==
    /\ pc \in {"idle", "returned", "raised"}
    /\ \E k \in {"daily", "month_to_date"} : EnterCostQuery(k)
    /\ UNCHANGED scheduleVars

\* One pass through the loop head and the call of transport.search:
\* lines 205-209, and lines 221-223 when the loop condition fails.
SearchCall ==
    /\ pc = "loop"
    /\ UNCHANGED <<retry_config, kind, result, scheduleVars>>
    /\ IF LoopCondition(attempt)
       THEN LET att == NextAttempt(attempt)
                lg == Append(log, SearchEvent) IN
            /\ attempt' = att
            /\ total_micros' = AttemptTotal(total_micros)
            /\ UNCHANGED discarded
            /\ \E resp \in {"iterator"} \cup TransportErrorClasses :
                  IF resp = "iterator"
                  THEN /\ pc' = "iterating"
                       /\ log' = lg
                       /\ rows' = <<>>
                       /\ UNCHANGED <<delay, last_error, thrown, raised,
                                      transport_failures>>
                  ELSE /\ transport_failures' = transport_failures + 1
                       /\ OnException([cls |-> resp, attempt |-> att], att, lg)
       ELSE /\ pc' = "raised"
            /\ raised' = IF last_error # NoError THEN last_error
                         ELSE [cls |-> "RuntimeError", attempt |-> 0]
            /\ UNCHANGED <<attempt, delay, last_error, total_micros, rows, log, thrown,
                           transport_failures, discarded>>

\* The iterator yields one more row: line 210.
RowYield ==
    /\ pc = "iterating"
    /\ Len(rows) < MaxRows
    /\ UNCHANGED <<retry_config, kind, attempt, result, transport_failures, scheduleVars>>
    /\ \E row \in RowShapes :
          LET r == extract_cost_micros(row) IN
          /\ IF r.ok
             THEN /\ total_micros' = total_micros + r.value
                  /\ rows' = Append(rows, row)
                  /\ UNCHANGED <<pc, delay, last_error, log, thrown, raised, discarded>>
             ELSE /\ UNCHANGED total_micros
                  /\ discarded' = (discarded \/ total_micros # 0)
                  /\ OnException([cls |-> r.cls, attempt |-> attempt], attempt, log)

\* The iterator raises instead of yielding: line 209.
IterationRaises ==
    /\ pc = "iterating"
    /\ UNCHANGED <<retry_config, kind, attempt, result, total_micros, scheduleVars>>
    /\ \E c \in TransportErrorClasses :
          /\ transport_failures' = transport_failures + 1
          /\ discarded' = (discarded \/ total_micros # 0)
          /\ OnException([cls |-> c, attempt |-> attempt], attempt, log)

\* The iterator is exhausted: line 211, and the summary of lines 233-238 / 248-253.
IterationEnds ==
    /\ pc = "iterating"
    /\ pc' = "returned"
    /\ result' = Summary(kind, total_micros)
    /\ UNCHANGED <<retry_config, kind, attempt, delay, last_error, total_micros,
                   rows, log, thrown, transport_failures, raised, discarded, scheduleVars>>

----------------------------------------------------------------------------
(* Datetimes of schedule.py *)

\* A datetime: day counts calendar days, minute the minutes since midnight,
\* micro the microseconds within that minute; tz is "naive" or a zone key.
\* Zones have a fixed UTC offset (no transition falls in the modelled days).
DT(day, minute, micro, tz) == [day |-> day, minute |-> minute, micro |-> micro, tz |-> tz]

MinutesPerDay == 24 * 60
MicrosPerMinute == 60 * 1000000

\* forecast.py line 12.
DEFAULT_TZ == "Asia/Tokyo"

Zones == {"Asia/Tokyo", "UTC"}

\* Minutes east of UTC.
UtcOffset(tz) == IF tz = "Asia/Tokyo" THEN 9 * 60 ELSE 0

\* _coerce_timezone, forecast.py lines 61-62; "None" stands for None.
coerce_timezone(tz) == IF tz = "None" THEN DEFAULT_TZ ELSE tz

\* datetime.replace(tzinfo=tz): the wall clock is kept.
ReplaceTz(dt, tz) == [dt EXCEPT !.tz = tz]

\* datetime.astimezone(tz) of an aware datetime: the instant is kept.
AsTimezone(dt, tz) ==
    LET total == dt.day * MinutesPerDay + dt.minute - UtcOffset(dt.tz) + UtcOffset(tz) IN
    DT(total \div MinutesPerDay, total % MinutesPerDay, dt.micro, tz)

\* Mutant: only the calendar day is compared, the time of day is ignored.
DtLess_DayOnly(a, b) == a.day < b.day

\* a < b for two datetimes of the same tzinfo: the wall clocks are compared.
DtLess(a, b) ==
    \/ a.day < b.day
    \/ a.day = b.day /\ a.minute < b.minute
    \/ a.day = b.day /\ a.minute = b.minute /\ a.micro < b.micro

\* datetime + timedelta(minutes=dm, microseconds=dus): wall-clock arithmetic.
AddDelta(dt, dm, dus) ==
    LET us == dt.micro + dus
        mins == dt.day * MinutesPerDay + dt.minute + dm + us \div MicrosPerMinute IN
    DT(mins \div MinutesPerDay, mins % MinutesPerDay, us % MicrosPerMinute, dt.tz)

----------------------------------------------------------------------------
(* generate_daily_schedule, schedule.py lines 48-113 *)

\* What a call returned or raised: status is "ok" or "error"; error names the
\* ValueError; schedule is a returned list; found and value a returned
\* Optional datetime.
Response(status, error, schedule, found, value) ==
    [status |-> status, error |-> error, schedule |-> schedule, found |-> found,
     value |-> value]

NoDatetime == DT(0, 0, 0, "naive")

Raised(msg) == Response("error", msg, <<>>, FALSE, NoDatetime)
Returned(sched) == Response("ok", "", sched, FALSE, NoDatetime)

\* _validate_hour, lines 48-50.
validate_hour(hour) == 0 <= hour /\ hour <= 23

\* _validate_minute, lines 53-55.
validate_minute(minute) == 0 <= minute /\ minute <= 59

\* _build_anchor_datetime, lines 58-70: the anchor, or the ValueError.
build_anchor_datetime(target_date, hour, minute, tz) ==
    IF ~validate_hour(hour) THEN [ok |-> FALSE, error |-> "hour", dt |-> DT(0, 0, 0, tz)]
    ELSE IF ~validate_minute(minute)
    THEN [ok |-> FALSE, error |-> "minute", dt |-> DT(0, 0, 0, tz)]
    ELSE [ok |-> TRUE, error |-> "",
          dt |-> DT(target_date, hour * 60 + minute, 0, tz)]

\* round(num / den) to the nearest integer, ties to even: the rounding of
\* timedelta(seconds=<float>) to whole microseconds.
RoundHalfEven(num, den) ==
    LET q == num \div den
        r == num % den IN
    IF 2 * r < den THEN q
    ELSE IF 2 * r > den THEN q + 1
    ELSE IF q % 2 = 0 THEN q ELSE q + 1

\* start_dt + timedelta(seconds=step * i), lines 105-109, for anchors that
\* lie interval_minutes apart: step * i is interval * i / (run_count - 1)
\* seconds; its whole minutes are exact and the rest is rounded to a microsecond.
InterpolatedRun(start_dt, interval_minutes, run_count, i) ==
    LET whole == (interval_minutes * i) \div (run_count - 1)
        rest == (interval_minutes * i) % (run_count - 1) IN
    AddDelta(start_dt, whole, RoundHalfEven(rest * MicrosPerMinute, run_count - 1))

\* Mutant: the last entry is left as interpolated and the step divides by
\* run_count, so the schedule stops short of the end anchor.
generate_runs_DividesByCount(start_dt, end_dt, run_count) ==
    [k \in 1..run_count |->
        AddDelta(start_dt,
                 ((end_dt.minute - start_dt.minute) * (k - 1)) \div run_count, 0)]

\* lines 101-113: the entries for run_count >= 3.
generate_runs(start_dt, end_dt, run_count) ==
    LET interval_minutes == (end_dt.day - start_dt.day) * MinutesPerDay
                            + end_dt.minute - start_dt.minute IN
    [k \in 1..run_count |->
        IF k = run_count THEN end_dt
        ELSE InterpolatedRun(start_dt, interval_minutes, run_count, k - 1)]

\* lines 84-103, in the order of the code: the end anchor is built, and so
\* validated, only past the returns for run_count <= 0 and run_count == 1.
generate_daily_schedule(target_date, cfg) ==
    LET tz == coerce_timezone(cfg.timezone)
        start == build_anchor_datetime(target_date, cfg.start_hour, cfg.start_minute, tz)
        end == build_anchor_datetime(target_date, cfg.end_hour, cfg.end_minute, tz) IN
    IF ~start.ok THEN Raised(start.error)
    ELSE IF cfg.run_count <= 0 THEN Raised("run_count")
    ELSE IF cfg.run_count = 1 THEN Returned(<<start.dt>>)
    ELSE IF ~end.ok THEN Raised(end.error)
    ELSE IF DtLess(end.dt, start.dt) THEN Raised("end_before_start")
    ELSE IF cfg.run_count = 2 THEN Returned(<<start.dt, end.dt>>)
    ELSE Returned(generate_runs(start.dt, end.dt, cfg.run_count))

----------------------------------------------------------------------------
(* find_next_run_datetime, schedule.py lines 116-185 *)

NotFound == Response("ok", "", <<>>, FALSE, NoDatetime)
Found(dt) == Response("ok", "", <<>>, TRUE, dt)

\* _zoneinfo_from_datetime, lines 116-128, for tzinfo objects that are
\* ZoneInfo instances: "None" for a naive datetime.
zoneinfo_from_datetime(dt) == IF dt.tz = "naive" THEN "None" ELSE dt.tz

\* lines 154-160: the zone of the first aware entry, "None" without one.
RECURSIVE FirstAwareZone(_)
FirstAwareZone(schedule) ==
    IF schedule = <<>> THEN "None"
    ELSE IF zoneinfo_from_datetime(Head(schedule)) # "None"
    THEN zoneinfo_from_datetime(Head(schedule))
    ELSE FirstAwareZone(Tail(schedule))

\* lines 154-163: the working timezone.
ResolveTimezone(now, schedule, timezone) ==
    LET from_schedule == IF timezone = "None" THEN FirstAwareZone(schedule) ELSE timezone
        tz_candidate == IF from_schedule = "None" THEN zoneinfo_from_datetime(now)
                        ELSE from_schedule IN
    coerce_timezone(tz_candidate)

\* lines 165-168 and 173-176: naive values take the zone, aware ones are converted.
Localize(dt, tz) == IF dt.tz = "naive" THEN ReplaceTz(dt, tz) ELSE AsTimezone(dt, tz)

\* _normalize, lines 170-177.
normalize(entries, tz) == [i \in 1..Len(entries) |-> Localize(entries[i], tz)]

\* sorted(), line 179: a stable insertion of each entry after the entries
\* that are not greater.
RECURSIVE Insert(_, _)
Insert(sorted_part, dt) ==
    IF sorted_part = <<>> THEN <<dt>>
    ELSE IF DtLess(dt, Head(sorted_part)) THEN <<dt>> \o sorted_part
    ELSE <<Head(sorted_part)>> \o Insert(Tail(sorted_part), dt)

RECURSIVE Sorted(_)
Sorted(entries) ==
    IF entries = <<>> THEN <<>>
    ELSE Insert(Sorted(SubSeq(entries, 1, Len(entries) - 1)), entries[Len(entries)])

\* Mutant: an entry equal to now is taken as past.
IsUpcoming_Strict(run, localized_now) == DtLess(localized_now, run)

\* line 182: run >= localized_now.
IsUpcoming(run, localized_now) == ~DtLess(run, localized_now)

\* lines 181-185: the first upcoming entry of the sorted schedule.
RECURSIVE FirstUpcoming(_, _)
FirstUpcoming(sorted_schedule, localized_now) ==
    IF sorted_schedule = <<>> THEN NotFound
    ELSE IF IsUpcoming(Head(sorted_schedule), localized_now) THEN Found(Head(sorted_schedule))
    ELSE FirstUpcoming(Tail(sorted_schedule), localized_now)

find_next_run_datetime(now, schedule, timezone) ==
    IF schedule = <<>> THEN NotFound
    ELSE LET tz == ResolveTimezone(now, schedule, timezone)
             localized_now == Localize(now, tz) IN
         FirstUpcoming(Sorted(normalize(schedule, tz)), localized_now)

----------------------------------------------------------------------------
(* generate_upcoming_run_windows, schedule.py lines 187-241 *)

\* DailyScheduleConfig(), lines 40-45.
DefaultDailyScheduleConfig ==
    [timezone |-> "None", start_hour |-> 8, start_minute |-> 0,
     end_hour |-> 20, end_minute |-> 0, run_count |-> 3]

\* DailyScheduleWindow, lines 187-192.
DailyScheduleWindow(target_date, run_times) == [date |-> target_date, run_times |-> run_times]

WindowsReturned(windows) == [status |-> "ok", error |-> "", windows |-> windows]
WindowsRaised(msg) == [status |-> "error", error |-> msg, windows |-> <<>>]

\* _resolve_schedule_context, lines 195-211; config_given is FALSE for
\* config=None.
resolve_schedule_context(now, config_given, config) ==
    LET cfg == IF config_given THEN config ELSE DefaultDailyScheduleConfig
        tz_candidate == IF cfg.timezone = "None" THEN zoneinfo_from_datetime(now)
                        ELSE cfg.timezone
        tz == coerce_timezone(tz_candidate) IN
    [tz |-> tz,
     effective_cfg |-> IF cfg.timezone # "None" THEN cfg ELSE [cfg EXCEPT !.timezone = tz],
     localized_now |-> Localize(now, tz)]

\* Mutant: the first window keeps the runs that are already past.
window_runs_NeverFilters(offset, daily_schedule, localized_now) == daily_schedule

\* lines 235-238: the runs of the window `offset` days from today.
window_runs(offset, daily_schedule, localized_now) ==
    IF offset = 0
    THEN SelectSeq(daily_schedule, LAMBDA run : IsUpcoming(run, localized_now))
    ELSE daily_schedule

\* lines 232-239: the windows for offsets 0..days-1, or the error of the
\* first generate_daily_schedule call that raises.
RECURSIVE windows_loop(_, _, _, _)
windows_loop(offset, days, ctx, windows) ==
    IF offset >= days THEN WindowsReturned(windows)
    ELSE LET target_date == ctx.localized_now.day + offset
             daily == generate_daily_schedule(target_date, ctx.effective_cfg) IN
         IF daily.status = "error" THEN WindowsRaised(daily.error)
         ELSE windows_loop(offset + 1, days, ctx,
                           Append(windows,
                                  DailyScheduleWindow(target_date,
                                      window_runs(offset, daily.schedule,
                                                  ctx.localized_now))))

\* lines 214-241.
generate_upcoming_run_windows(now, days, config_given, config) ==
    IF days <= 0 THEN WindowsRaised("days")
    ELSE windows_loop(0, days, resolve_schedule_context(now, config_given, config), <<>>)

\* Mutant: the runs of a window are put in front of the runs collected.
extend_upcoming_Prepends(upcoming, window) == window.run_times \o upcoming

\* schedule.py line 254: upcoming.extend(window.run_times).
extend_upcoming(upcoming, window) == upcoming \o window.run_times

\* lines 252-255: the run times of the windows, window after window.
RECURSIVE upcoming_of(_, _)
upcoming_of(windows, upcoming) ==
    IF windows = <<>> THEN upcoming
    ELSE upcoming_of(Tail(windows), extend_upcoming(upcoming, Head(windows)))

\* generate_upcoming_run_times, lines 244-255.
generate_upcoming_run_times(now, days, config_given, config) ==
    LET windows == generate_upcoming_run_windows(now, days, config_given, config) IN
    IF windows.status = "error" THEN Raised(windows.error)
    ELSE Returned(upcoming_of(windows.windows, <<>>))

----------------------------------------------------------------------------
(* The recurring scheduler, cli.py lines 576-717 *)

\* The closure _build_scheduler_job returns, lines 576-610: the arguments of
\* run_once it holds.
SchedulerJob(env_path, base_env, dry_run) ==
    [name |-> "_job", env_path |-> env_path, base_env |-> base_env, dry_run |-> dry_run]

\* The call of run_once a fired job makes, lines 587-595.
job_run_once(func) ==
    [env_path |-> func.env_path, base_env |-> func.base_env, dry_run |-> func.dry_run]

\* A job of the scheduler: the arguments of add_job, lines 657-666.
CronJob(func, id, hour, minute, second, timezone) ==
    [func |-> func, trigger |-> "cron", id |-> id, hour |-> hour, minute |-> minute,
     second |-> second, timezone |-> timezone]

\* add_job with replace_existing=True: a job of the same id is replaced,
\* any other id is added at the end.
RECURSIVE add_job(_, _)
add_job(jobs, job) ==
    IF jobs = <<>> THEN <<job>>
    ELSE IF Head(jobs).id = job.id THEN <<job>> \o Tail(jobs)
    ELSE <<Head(jobs)>> \o add_job(Tail(jobs), job)

\* lines 648-652: the run time in the zone of the scheduler.
localized_run_time(run_time, tz) ==
    IF run_time.tz = "naive" THEN [run_time EXCEPT !.tz = tz]
    ELSE AsTimezone(run_time, tz)

\* line 654: (hour, minute, second) of a run time.
slot_of(localized) ==
    <<localized.minute \div 60, localized.minute % 60, localized.micro \div 1000000>>

\* Mutant: the index of the job ids is never advanced.
next_job_index_Stays(job_index) == job_index

\* line 678: job_index += 1.
next_job_index(job_index) == job_index + 1

\* The state of the loop of _register_daily_jobs, lines 643-678.
RegisterState(jobs, calls, seen_slots, job_index) ==
    [jobs |-> jobs, calls |-> calls, seen_slots |-> seen_slots, job_index |-> job_index]

\* One pass of the loop, lines 647-678, on the run time given.
register_run_time(st, run_time, tz, job) ==
    LET slot == slot_of(localized_run_time(run_time, tz)) IN
    IF slot \in st.seen_slots THEN st
    ELSE RegisterState(
             add_job(st.jobs, CronJob(job, <<"daily-alert", st.job_index>>,
                                      slot[1], slot[2], slot[3], tz)),
             Append(st.calls, "add_job"),
             st.seen_slots \cup {slot},
             next_job_index(st.job_index))

\* The loop of _register_daily_jobs over the schedule.
RECURSIVE register_daily_jobs(_, _, _, _)
register_daily_jobs(st, schedule, tz, job) ==
    IF schedule = <<>> THEN st
    ELSE register_daily_jobs(register_run_time(st, Head(schedule), tz, job),
                             Tail(schedule), tz, job)

\* load_schedule_config, config.py lines 150-163, on an environment whose
\* ALERT_* values are written as the numbers they denote.
load_schedule_config(env) ==
    [timezone |-> coerce_timezone(env.ALERT_TIMEZONE),
     start_hour |-> env.ALERT_START_HOUR, start_minute |-> 0,
     end_hour |-> env.ALERT_END_HOUR, end_minute |-> env.ALERT_END_MINUTE,
     run_count |-> env.ALERT_RUN_COUNT]

\* The scheduler and what run_scheduler left.
SchedulerState(status, env_values, caller_env, jobs, calls, run_once_calls, fired) ==
    [status |-> status, env_values |-> env_values, caller_env |-> caller_env,
     jobs |-> jobs, calls |-> calls, run_once_calls |-> run_once_calls, fired |-> fired]

\* lines 700-704: remove_all_jobs is called when the scheduler has it.
clear_jobs(jobs, offers_remove_all_jobs) ==
    IF offers_remove_all_jobs THEN RegisterState(<<>>, <<"remove_all_jobs">>, {}, 0)
    ELSE RegisterState(jobs, <<>>, {}, 0)

\* run_scheduler, lines 683-717, env_path being None: the config is loaded
\* from a copy of base_env, the jobs are cleared, the job is built on the
\* copy and registered for the schedule of today.
run_scheduler(base_env, dry_run, today, jobs, offers_remove_all_jobs) ==
    LET config == load_schedule_config(base_env)
        tz == coerce_timezone(config.timezone)
        cleared == clear_jobs(jobs, offers_remove_all_jobs)
        job == SchedulerJob("None", base_env, dry_run)
        schedule == generate_daily_schedule(today, config) IN
    IF schedule.status = "error"
    THEN SchedulerState("raised", base_env, base_env, cleared.jobs, cleared.calls, <<>>, 0)
    ELSE LET st == register_daily_jobs(cleared, schedule.schedule, tz, job) IN
         SchedulerState("returned", base_env, base_env, st.jobs, st.calls, <<>>, 0)

----------------------------------------------------------------------------

(* Python floats: IEEE 754 binary64 arithmetic, round to nearest, ties to even *)

\* Natural numbers of any size are written in limbs of 15 bits.
LimbBase == 2^15

\* A natural number: its limbs, least significant first, the last one not 0;
\* <<>> is zero.
RECURSIVE BN(_)
BN(n) == IF n = 0 THEN <<>> ELSE <<n % LimbBase>> \o BN(n \div LimbBase)

RECURSIVE BNTrim(_)
BNTrim(a) ==
    IF a = <<>> THEN <<>>
    ELSE IF a[Len(a)] = 0 THEN BNTrim(SubSeq(a, 1, Len(a) - 1))
    ELSE a

RECURSIVE BNAddCarry(_, _, _)
BNAddCarry(a, b, carry) ==
    IF a = <<>> /\ b = <<>> THEN (IF carry = 0 THEN <<>> ELSE <<carry>>)
    ELSE LET x == IF a = <<>> THEN 0 ELSE Head(a)
             y == IF b = <<>> THEN 0 ELSE Head(b)
             s == x + y + carry IN
         <<s % LimbBase>> \o BNAddCarry(IF a = <<>> THEN <<>> ELSE Tail(a),
                                        IF b = <<>> THEN <<>> ELSE Tail(b),
                                        s \div LimbBase)

BNAdd(a, b) == BNAddCarry(a, b, 0)

RECURSIVE BNSubBorrow(_, _, _)
BNSubBorrow(a, b, borrow) ==
    IF a = <<>> THEN <<>>
    ELSE LET y == IF b = <<>> THEN 0 ELSE Head(b)
             d == Head(a) - y - borrow IN
         <<d % LimbBase>> \o BNSubBorrow(Tail(a), IF b = <<>> THEN <<>> ELSE Tail(b),
                                         IF d < 0 THEN 1 ELSE 0)

\* a - b for a >= b.
BNSub(a, b) == BNTrim(BNSubBorrow(a, b, 0))

RECURSIVE BNLess(_, _)
BNLess(a, b) ==
    IF Len(a) # Len(b) THEN Len(a) < Len(b)
    ELSE IF a = <<>> THEN FALSE
    ELSE IF a[Len(a)] # b[Len(b)] THEN a[Len(a)] < b[Len(b)]
    ELSE BNLess(BNTrim(SubSeq(a, 1, Len(a) - 1)), BNTrim(SubSeq(b, 1, Len(b) - 1)))

\* a * k for a natural k < LimbBase.
RECURSIVE BNMulLimb(_, _, _)
BNMulLimb(a, k, carry) ==
    IF a = <<>> THEN (IF carry = 0 THEN <<>> ELSE <<carry>>)
    ELSE LET p == Head(a) * k + carry IN
         <<p % LimbBase>> \o BNMulLimb(Tail(a), k, p \div LimbBase)

RECURSIVE BNMul(_, _)
BNMul(a, b) ==
    IF a = <<>> \/ b = <<>> THEN <<>>
    ELSE LET high == BNMul(a, Tail(b)) IN
         BNAdd(BNTrim(BNMulLimb(a, Head(b), 0)),
               IF high = <<>> THEN <<>> ELSE <<0>> \o high)

\* The largest element of a set of numbers.
MaxOf(S) == CHOOSE c \in S : \A other \in S : other <= c

\* The largest d in lo..(lo + 8 * step - 1) with b * d <= r, for b * lo <= r
\* and step a power of 8: the search narrows to one of eight ranges at a time.
RECURSIVE BNQuotientLimb(_, _, _, _)
BNQuotientNarrow(r, b, best, step) ==
    IF step = 1 THEN best ELSE BNQuotientLimb(r, b, best, step \div 8)

BNQuotientLimb(r, b, lo, step) ==
    BNQuotientNarrow(
        r, b,
        lo + step * MaxOf({ c \in 0..7 :
                              ~BNLess(r, BNTrim(BNMulLimb(b, lo + c * step, 0))) }),
        step)

\* The quotient limb d of r2 by b is put before q, b * d leaves r2.
BNDivPut(q, r2, b, d) ==
    [q |-> BNTrim(<<d>> \o q), r |-> BNSub(r2, BNTrim(BNMulLimb(b, d, 0)))]

BNDivTake(q, r2, b) == BNDivPut(q, r2, b, BNQuotientLimb(r2, b, 0, LimbBase \div 8))

\* One step of the long division: `high` is the quotient and remainder of
\* the limbs above `limb`.
BNDivStep(high, limb, b) ==
    IF high.r = <<>> /\ limb = 0 THEN [q |-> BNTrim(<<0>> \o high.q), r |-> <<>>]
    ELSE BNDivTake(high.q, <<limb>> \o high.r, b)

\* The long division of the limbs i, i-1, ..., 1 of a, `high` being the
\* quotient and remainder of the limbs above them and `next` those of the
\* limbs from i on.
RECURSIVE BNDivLoop(_, _, _, _)
BNDivNext(a, i, next, b) ==
    IF next.r = <<>> THEN BNDivLoop(a, i - 1, [q |-> next.q, r |-> <<>>], b)
    ELSE BNDivLoop(a, i - 1, next, b)

BNDivLoop(a, i, high, b) ==
    IF i = 0 THEN high ELSE BNDivNext(a, i, BNDivStep(high, a[i], b), b)

\* Quotient and remainder of a by b > 0.
BNDivMod(a, b) == BNDivLoop(a, Len(a), [q |-> <<>>, r |-> <<>>], b)

\* 2^n.
BNPow2(n) == [i \in 1..(n \div 15) |-> 0] \o <<2^(n % 15)>>

\* The number of bits of a natural n < LimbBase.
RECURSIVE LimbBits(_)
LimbBits(n) == IF n = 0 THEN 0 ELSE 1 + LimbBits(n \div 2)

\* The number of bits of a.
BNBits(a) == IF a = <<>> THEN 0 ELSE 15 * (Len(a) - 1) + LimbBits(a[Len(a)])

\* Bits of the significand of a float.
Precision == 53

\* A finite float: (-1)^neg * m * 2^e, m of Precision bits, or m = <<>> for
\* zero. Subnormal numbers and overflow lie outside the modelled amounts.
Float(neg, m, e) == [neg |-> neg, m |-> m, e |-> e]

FloatZero == Float(FALSE, <<>>, 0)

\* A significand that rounding has carried to Precision + 1 bits is halved.
Normalized(neg, rounded, e) ==
    IF BNBits(rounded) > Precision THEN Float(neg, BNDivMod(rounded, <<2>>).q, e + 1)
    ELSE Float(neg, rounded, e)

\* Whether q + r / 2^d rounds up: past the half, or at the half when a
\* sticky rest lies beyond r or q is odd.
RoundsUp(parts, d, sticky) ==
    \/ BNLess(BNPow2(d), BNAdd(parts.r, parts.r))
    \/ BNAdd(parts.r, parts.r) = BNPow2(d) /\ (sticky \/ parts.q[1] % 2 = 1)

\* `parts` is the significand cut after Precision bits, d bits being cut off.
RoundQuotient(neg, parts, d, e, sticky) ==
    Normalized(neg,
               IF RoundsUp(parts, d, sticky) THEN BNAdd(parts.q, <<1>>) ELSE parts.q,
               e + d)

\* A significand m of L bits is brought to Precision bits.
RoundBits(neg, m, e, sticky, L) ==
    IF L <= Precision
    THEN Float(neg, BNMul(m, BNPow2(Precision - L)), e - (Precision - L))
    ELSE RoundQuotient(neg, BNDivMod(m, BNPow2(L - Precision)), L - Precision, e, sticky)

\* The float nearest to (-1)^neg * (m + f) * 2^e, where 0 <= f < 1 and
\* `sticky` says whether f > 0; ties go to the even significand.
RoundToFloat(neg, m, e, sticky) ==
    IF m = <<>> THEN FloatZero ELSE RoundBits(neg, m, e, sticky, BNBits(m))

\* float(n) for a natural n.
FloatOfNat(n) == RoundToFloat(FALSE, BN(n), 0, FALSE)

\* The quotient dm.q with remainder dm.r of two significands, as a float.
QuotientToFloat(neg, dm, e) == RoundToFloat(neg, dm.q, e, dm.r # <<>>)

\* x / y: the quotient of the significands to Precision + 3 bits and more,
\* the remainder telling whether it is exact. The callers exclude y = 0
\* (forecast.py lines 96, 106, 135 and 139), which has no quotient.
FloatDiv(x, y) ==
    IF y.m = <<>> \/ x.m = <<>> THEN FloatZero
    ELSE QuotientToFloat(x.neg # y.neg,
                         BNDivMod(BNMul(x.m, BNPow2(Precision + 3)), y.m),
                         x.e - y.e - (Precision + 3))

\* x * y.
FloatMul(x, y) ==
    IF x.m = <<>> \/ y.m = <<>> THEN FloatZero
    ELSE RoundToFloat(x.neg # y.neg, BNMul(x.m, y.m), x.e + y.e, FALSE)

\* -x.
FloatNeg(x) == IF x.m = <<>> THEN x ELSE Float(~x.neg, x.m, x.e)

\* float(n) for an integer n.
FloatOfInt(n) == IF n < 0 THEN FloatNeg(FloatOfNat(-n)) ELSE FloatOfNat(n)

\* The significand of x written for the exponent e <= x.e.
Aligned(x, e) == BNMul(x.m, BNPow2(x.e - e))

\* The lower exponent of two floats.
MinExponent(x, y) == IF x.e < y.e THEN x.e ELSE y.e

\* x < y for two floats other than zero with aligned significands mx, my.
LessAligned(xneg, mx, yneg, my) ==
    IF xneg # yneg THEN xneg
    ELSE IF xneg THEN BNLess(my, mx)
    ELSE BNLess(mx, my)

\* x < y.
FloatLess(x, y) ==
    IF x.m = <<>> THEN y.m # <<>> /\ ~y.neg
    ELSE IF y.m = <<>> THEN x.neg
    ELSE LessAligned(x.neg, Aligned(x, MinExponent(x, y)),
                     y.neg, Aligned(y, MinExponent(x, y)))

\* The sign and the exact magnitude of x - y for aligned significands.
SignedDifference(xneg, mx, yneg, my) ==
    IF xneg # yneg THEN [neg |-> xneg, m |-> BNAdd(mx, my)]
    ELSE IF BNLess(my, mx) THEN [neg |-> xneg, m |-> BNSub(mx, my)]
    ELSE [neg |-> ~xneg, m |-> BNSub(my, mx)]

DifferenceToFloat(diff, e) == RoundToFloat(diff.neg, diff.m, e, FALSE)

\* x - y: the exact difference of the significands aligned to the lower
\* exponent, rounded once.
FloatSub(x, y) ==
    IF y.m = <<>> THEN x
    ELSE IF x.m = <<>> THEN FloatNeg(y)
    ELSE DifferenceToFloat(SignedDifference(x.neg, Aligned(x, MinExponent(x, y)),
                                            y.neg, Aligned(y, MinExponent(x, y))),
                           MinExponent(x, y))

----------------------------------------------------------------------------

(* Calendar dates: day 0 is the first of January of EpochYear *)

EpochYear == 2023

IsLeapYear(year) == year % 4 = 0 /\ (year % 100 # 0 \/ year % 400 = 0)

DaysInYear(year) == IF IsLeapYear(year) THEN 366 ELSE 365

DaysInMonth(year, month) ==
    IF month = 2 THEN (IF IsLeapYear(year) THEN 29 ELSE 28)
    ELSE IF month \in {4, 6, 9, 11} THEN 30
    ELSE 31

RECURSIVE DaysBeforeYear(_)
DaysBeforeYear(year) ==
    IF year <= EpochYear THEN 0 ELSE DaysBeforeYear(year - 1) + DaysInYear(year - 1)

RECURSIVE DaysBeforeMonth(_, _)
DaysBeforeMonth(year, month) ==
    IF month <= 1 THEN 0
    ELSE DaysBeforeMonth(year, month - 1) + DaysInMonth(year, month - 1)

\* date(year, month, day) as a day number.
DayNumber(year, month, day) == DaysBeforeYear(year) + DaysBeforeMonth(year, month) + day - 1

RECURSIVE YearOfDay(_, _)
YearOfDay(n, year) ==
    IF n < DaysInYear(year) THEN [year |-> year, rest |-> n]
    ELSE YearOfDay(n - DaysInYear(year), year + 1)

RECURSIVE MonthOfDay(_, _, _)
MonthOfDay(n, year, month) ==
    IF n < DaysInMonth(year, month) THEN [year |-> year, month |-> month, day |-> n + 1]
    ELSE MonthOfDay(n - DaysInMonth(year, month), year, month + 1)

\* The year, month and day of day number n >= 0.
CivilDate(n) == LET y == YearOfDay(n, EpochYear) IN MonthOfDay(y.rest, y.year, 1)

----------------------------------------------------------------------------
(* forecast.py *)

\* An Optional[float]: None or a float.
NoneFloat == [some |-> FALSE, v |-> FloatZero]
SomeFloat(v) == [some |-> TRUE, v |-> v]

\* A timedelta: whole minutes and the microseconds within the minute.
Timedelta(minutes, micros) == [minutes |-> minutes, micros |-> micros]

\* a - b for two datetimes of the same tzinfo: the wall clocks are subtracted.
DtMinus(a, b) ==
    LET mins == (a.day - b.day) * MinutesPerDay + a.minute - b.minute
        us == a.micro - b.micro IN
    IF us < 0 THEN Timedelta(mins - 1, us + MicrosPerMinute) ELSE Timedelta(mins, us)

\* timedelta.total_seconds() of a timedelta that is not negative: the
\* microseconds divided by 10^6.
total_seconds(td) ==
    LET us == BNAdd(BNMul(BN(td.minutes), BN(MicrosPerMinute)), BN(td.micros)) IN
    FloatDiv(RoundToFloat(FALSE, us, 0, FALSE), FloatOfNat(1000000))

\* _localize_datetime, lines 65-70.
localize_datetime(as_of, tz) ==
    IF as_of.tz = "naive" THEN ReplaceTz(as_of, tz) ELSE AsTimezone(as_of, tz)

\* _day_bounds, lines 73-77.
day_bounds(as_of, tz) ==
    LET localized == localize_datetime(as_of, tz)
        day_start == DT(localized.day, 0, 0, localized.tz) IN
    [day_start |-> day_start, day_end |-> AddDelta(day_start, MinutesPerDay, 0),
     localized |-> localized]

\* Mutant: only a negative elapsed time counts as no elapsed time.
NoElapsedTime_Negative(seconds) == seconds.m # <<>> /\ seconds.neg

\* line 96: elapsed.total_seconds() <= 0.
NoElapsedTime(seconds) == seconds.m = <<>> \/ seconds.neg

\* lines 106-109 and 139-142: None without a budget or with a budget of 0.
budget_utilization(spend, budget) ==
    IF ~budget.some \/ budget.v.m = <<>> THEN NoneFloat
    ELSE SomeFloat(FloatDiv(spend, budget.v))

\* Mutant: the rate per minute is scaled by the seconds of a day.
scale_rate_PerMinute(current_spend, seconds_elapsed, factor) ==
    FloatMul(FloatDiv(current_spend, FloatDiv(seconds_elapsed, FloatOfNat(60))), factor)

\* lines 101-103: rate_per_second * factor.
scale_rate(current_spend, seconds_elapsed, factor) ==
    FloatMul(FloatDiv(current_spend, seconds_elapsed), factor)

\* lines 96-119: the result for an elapsed time of seconds_elapsed seconds.
daily_result(params, localized, elapsed, day_duration, seconds_elapsed) ==
    [as_of |-> localized,
     current_spend |-> params.current_spend,
     elapsed |-> elapsed,
     day_duration |-> day_duration,
     projected_spend |->
        IF NoElapsedTime(seconds_elapsed) THEN NoneFloat
        ELSE SomeFloat(scale_rate(params.current_spend, seconds_elapsed,
                                  total_seconds(day_duration))),
     spend_rate_per_hour |->
        IF NoElapsedTime(seconds_elapsed) THEN NoneFloat
        ELSE SomeFloat(scale_rate(params.current_spend, seconds_elapsed, FloatOfNat(3600))),
     budget_utilization |-> budget_utilization(params.current_spend, params.daily_budget)]

\* calculate_daily_projection, lines 80-119.
calculate_daily_projection(params) ==
    LET tz == coerce_timezone(params.timezone)
        bounds == day_bounds(params.as_of, tz)
        elapsed == DtMinus(bounds.localized, bounds.day_start)
        day_duration == DtMinus(bounds.day_end, bounds.day_start) IN
    daily_result(params, bounds.localized, elapsed, day_duration, total_seconds(elapsed))

\* Mutant: the month after December is taken in the same year.
next_month_start_SameYear(civil) == DayNumber(civil.year, (civil.month % 12) + 1, 1)

\* lines 128-131: the date of next_month.
next_month_start(civil) ==
    IF civil.month = 12 THEN DayNumber(civil.year + 1, 1, 1)
    ELSE DayNumber(civil.year, civil.month + 1, 1)

\* lines 138-152: the result for a projection of projected_month_end_spend.
monthly_result(params, localized, days_elapsed, days_in_month, average_daily_spend, projected_month_end_spend) ==
    [as_of |-> localized,
     month_to_date_spend |-> params.month_to_date_spend,
     average_daily_spend |-> average_daily_spend,
     projected_month_end_spend |-> projected_month_end_spend,
     days_elapsed |-> days_elapsed,
     days_in_month |-> days_in_month,
     budget_utilization |-> budget_utilization(projected_month_end_spend, params.monthly_budget)]

\* line 136: the average of the days elapsed over the days of the month.
monthly_average(params, localized, days_elapsed, days_in_month, average_daily_spend) ==
    monthly_result(params, localized, days_elapsed, days_in_month, average_daily_spend,
                   FloatMul(average_daily_spend, FloatOfNat(days_in_month)))

\* calculate_monthly_pace, lines 122-152.
calculate_monthly_pace(params) ==
    LET tz == coerce_timezone(params.timezone)
        localized == localize_datetime(params.as_of, tz)
        civil == CivilDate(localized.day)
        first_of_month == DayNumber(civil.year, civil.month, 1)
        days_elapsed == localized.day - first_of_month + 1
        days_in_month == next_month_start(civil) - first_of_month IN
    monthly_average(params, localized, days_elapsed, days_in_month,
                    FloatDiv(params.month_to_date_spend,
                             FloatOfNat(IF days_elapsed > 1 THEN days_elapsed ELSE 1)))

----------------------------------------------------------------------------
(* Reporting windows and cost summaries of google_ads_client.py *)

\* _localize, google_ads_client.py lines 23-28.
localize(as_of, tz) ==
    IF as_of.tz = "naive" THEN ReplaceTz(as_of, tz) ELSE AsTimezone(as_of, tz)

\* QueryRange, lines 77-82.
QueryRange(start, end) == [start |-> start, end |-> end]

\* datetime.replace(hour=0, minute=0, second=0, microsecond=0).
Midnight(dt) == DT(dt.day, 0, 0, dt.tz)

\* Mutant: the window ends at the midnight it starts at.
day_window_Empty(day_start) == QueryRange(day_start, day_start)

\* lines 131-133: the day after day_start closes the window.
day_window(day_start) == QueryRange(day_start, AddDelta(day_start, MinutesPerDay, 0))

\* build_daily_query_range, lines 124-133.
build_daily_query_range(as_of, timezone) ==
    LET tz == coerce_timezone(timezone)
        localized == localize(as_of, tz) IN
    day_window(Midnight(localized))

\* Mutant: the month-to-date window starts at the midnight of as_of's day.
month_start_SameDay(localized) == Midnight(localized)

\* line 143: localized.replace(day=1, hour=0, minute=0, second=0, microsecond=0).
month_start(localized) ==
    LET civil == CivilDate(localized.day) IN
    DT(DayNumber(civil.year, civil.month, 1), 0, 0, localized.tz)

\* build_month_to_date_query_range, lines 136-147.
build_month_to_date_query_range(as_of, timezone) ==
    LET tz == coerce_timezone(timezone)
        localized == localize(as_of, tz)
        next_day == AddDelta(Midnight(localized), MinutesPerDay, 0) IN
    QueryRange(month_start(localized), next_day)

\* str(int) of a number below ten.
DigitText(n) == <<"0", "1", "2", "3", "4", "5", "6", "7", "8", "9">>[n + 1]

\* A number in two decimal digits, character by character.
TwoDigits(n) == <<DigitText((n \div 10) % 10), DigitText(n % 10)>>

\* str(date): YYYY-MM-DD, character by character.
DateText(day) ==
    LET civil == CivilDate(day) IN
    TwoDigits(civil.year \div 100) \o TwoDigits(civil.year % 100) \o <<"-">>
        \o TwoDigits(civil.month) \o <<"-">> \o TwoDigits(civil.day)

\* The text of a query is the sequence of its segments: the words of its
\* clauses and the blanks between them whole, the date literals character
\* by character.
SelectFromCustomer == "SELECT segments.date, metrics.cost_micros FROM customer"

\* WHERE segments.date BETWEEN 'first' AND 'last'
DateFilter(first, last) ==
    <<"WHERE", " ", "segments.date", " ", "BETWEEN", " ", "'">> \o first
        \o <<"'", " ", "AND", " ", "'">> \o last \o <<"'">>

\* build_cost_query, lines 150-160.
build_cost_query(query_range) ==
    LET start_date == query_range.start.day
        end_date == AddDelta(query_range.end, -MinutesPerDay, 0).day IN
    <<SelectFromCustomer, " ">> \o DateFilter(DateText(start_date), DateText(end_date))

\* DailyCostSummary and MonthToDateCostSummary, lines 85-114, with every field.
CostSummary(k, as_of, query_range, total) ==
    [kind |-> k, as_of |-> as_of, report_start |-> query_range.start,
     report_end |-> query_range.end, total_cost_micros |-> total]

\* DailyCostSummary.total_cost, google_ads_client.py line 98.
total_cost(total_cost_micros) == FloatDiv(FloatOfInt(total_cost_micros), FloatOfNat(1000000))

\* fetch_daily_cost, lines 225-238, _execute_cost_query having returned
\* `total`; config_timezone is GoogleAdsClientConfig.timezone, line 48.
fetch_daily_cost(config_timezone, as_of, total) ==
    LET tz == coerce_timezone(config_timezone)
        localized_as_of == localize(as_of, tz)
        query_range == build_daily_query_range(localized_as_of, tz) IN
    CostSummary("daily", localized_as_of, query_range, total)

\* fetch_month_to_date_cost, lines 240-253.
fetch_month_to_date_cost(config_timezone, as_of, total) ==
    LET tz == coerce_timezone(config_timezone)
        localized_as_of == localize(as_of, tz)
        query_range == build_month_to_date_query_range(localized_as_of, tz) IN
    CostSummary("month_to_date", localized_as_of, query_range, total)

----------------------------------------------------------------------------
(* transports/demo.py: the demo transport *)

\* The segment at position i of a text, nothing beyond its end.
At(text, i) == IF i \in 1..Len(text) THEN text[i] ELSE ""

\* \s+ from position i: the first position that holds no blank.
RECURSIVE SkipBlanks(_, _)
SkipBlanks(text, i) == IF At(text, i) = " " THEN SkipBlanks(text, i + 1) ELSE i

Digits == {"0", "1", "2", "3", "4", "5", "6", "7", "8", "9"}

\* \d{4}-\d{2}-\d{2} at position i.
IsoDateAt(text, i) ==
    \A k \in 0..9 : IF k \in {4, 7} THEN At(text, i + k) = "-" ELSE At(text, i + k) \in Digits

\* '(\d{4}-\d{2}-\d{2})' at position i.
QuotedDateAt(text, i) == At(text, i) = "'" /\ IsoDateAt(text, i + 1) /\ At(text, i + 11) = "'"

\* The two groups of a match whose dates open at positions c and e.
DateRangeGroups(text, matched, c, e) ==
    [matched |-> matched,
     start |-> IF matched THEN SubSeq(text, c + 1, c + 10) ELSE <<>>,
     end |-> IF matched THEN SubSeq(text, e + 1, e + 10) ELSE <<>>]

\* AND\s+'date' behind the first date, which opens at position c.
DateRangeTail(text, head, c, d) ==
    DateRangeGroups(text,
        /\ head
        /\ d > c + 12
        /\ At(text, d) = "AND"
        /\ SkipBlanks(text, d + 1) > d + 1
        /\ QuotedDateAt(text, SkipBlanks(text, d + 1)),
        c, SkipBlanks(text, d + 1))

\* segments\.date\s+BETWEEN\s+'date'\s+ behind WHERE\s+, from position a.
DateRangeHead(text, i, a, b) ==
    DateRangeTail(text,
        /\ At(text, i) = "WHERE"
        /\ a > i + 1
        /\ At(text, a) = "segments.date"
        /\ b > a + 1
        /\ At(text, b) = "BETWEEN"
        /\ SkipBlanks(text, b + 1) > b + 1
        /\ QuotedDateAt(text, SkipBlanks(text, b + 1)),
        SkipBlanks(text, b + 1), SkipBlanks(text, SkipBlanks(text, b + 1) + 12))

\* _DATE_RANGE_RE, demo.py lines 14-16, matched at position i.
DateRangeMatchAt(text, i) ==
    DateRangeHead(text, i, SkipBlanks(text, i + 1),
                  SkipBlanks(text, SkipBlanks(text, i + 1) + 1))

\* _DATE_RANGE_RE.search(query): the leftmost match, if any.
date_range_search(query) ==
    LET hits == {i \in 1..Len(query) : DateRangeMatchAt(query, i).matched} IN
    IF hits = {} THEN DateRangeGroups(query, FALSE, 0, 0)
    ELSE DateRangeMatchAt(query, CHOOSE i \in hits : \A j \in hits : i <= j)

\* int() of a decimal digit.
DigitValue(c) == CHOOSE n \in 0..9 : DigitText(n) = c

\* date.fromisoformat of a text matching \d{4}-\d{2}-\d{2}: the date, or
\* ValueError for a month or a day that does not exist.
date_fromisoformat(text) ==
    LET year == 1000 * DigitValue(text[1]) + 100 * DigitValue(text[2])
                  + 10 * DigitValue(text[3]) + DigitValue(text[4])
        month == 10 * DigitValue(text[6]) + DigitValue(text[7])
        day == 10 * DigitValue(text[9]) + DigitValue(text[10]) IN
    IF year >= 1 /\ month \in 1..12 /\ day >= 1 /\ day <= DaysInMonth(year, month)
    THEN [ok |-> TRUE, year |-> year, month |-> month, day |-> day]
    ELSE [ok |-> FALSE, year |-> 0, month |-> 0, day |-> 0]

\* DemoTransport, demo.py lines 35-40.
DemoTransport(daily_cost_micros, month_to_date_cost_micros) ==
    [daily_cost_micros |-> daily_cost_micros,
     month_to_date_cost_micros |-> month_to_date_cost_micros]

\* What search gives: a list of rows, or the class of what it raises.
SearchReturned(row_list) == [raises |-> "None", rows |-> row_list]
SearchRaised(cls) == [raises |-> cls, rows |-> <<>>]

\* Mutant: the daily total answers every query.
demo_total_AlwaysDaily(transport, start, end) == transport.daily_cost_micros

\* demo.py lines 53-56: the daily total for a range of one date.
demo_total(transport, start, end) ==
    IF start = end THEN transport.daily_cost_micros
    ELSE transport.month_to_date_cost_micros

\* demo.py lines 50-58 for a matched query: the one row of the total.
demo_rows(transport, start, end) ==
    IF ~(start.ok /\ end.ok) THEN SearchRaised("ValueError")
    ELSE SearchReturned(<<CostRow(StrVal(DigitText(demo_total(transport, start, end))))>>)

\* DemoTransport.search, demo.py lines 42-58; ConfigError is a ValueError.
demo_search(transport, query) ==
    IF ~date_range_search(query).matched THEN SearchRaised("ValueError")
    ELSE demo_rows(transport, date_fromisoformat(date_range_search(query).start),
                   date_fromisoformat(date_range_search(query).end))

\* The window a fetch of the service queries: lines 228-232 and 243-247.
fetch_query_range(op, config_timezone, as_of) ==
    IF op = "fetch_daily_cost"
    THEN build_daily_query_range(localize(as_of, coerce_timezone(config_timezone)),
                                 coerce_timezone(config_timezone))
    ELSE build_month_to_date_query_range(localize(as_of, coerce_timezone(config_timezone)),
                                         coerce_timezone(config_timezone))

----------------------------------------------------------------------------

(* Calls of one service that overlap: the locals of each call *)

\* The locals of one call of _execute_cost_query, with the transport calls
\* and the sleeps the call has made.
CallFrame(frame_pc, frame_kind, frame_attempt, frame_delay, searches, sleeps) ==
    [pc |-> frame_pc, kind |-> frame_kind, attempt |-> frame_attempt,
     delay |-> frame_delay, searches |-> searches, sleeps |-> sleeps]

NoFrame == CallFrame("idle", "daily", 0, 0, 0, <<>>)

\* Mutant: attempt and delay are kept from the call before.
enter_cost_query_Carried(k, previous) ==
    CallFrame("loop", k, previous.attempt, previous.delay, 0, <<>>)

\* google_ads_client.py lines 201-203: attempt, delay and last_error are
\* locals, bound anew in every call.
enter_cost_query(k, previous) ==
    CallFrame("loop", k, 0, retry_config.initial_backoff_seconds, 0, <<>>)

\* Lines 212-219 in a call whose search has been counted.
frame_on_exception(searched, exc, sleep_outcome) ==
    IF ~IsException(exc) \/ ShouldRaise(exc, searched.attempt)
    THEN [searched EXCEPT !.pc = "raised"]
    ELSE IF ~ShouldSleep(searched.delay)
    THEN [searched EXCEPT !.delay = NextDelay(@)]
    ELSE IF sleep_outcome = "returns"
    THEN [searched EXCEPT !.sleeps = Append(@, searched.delay), !.delay = NextDelay(@)]
    ELSE [searched EXCEPT !.sleeps = Append(@, searched.delay), !.pc = "raised"]

\* Line 206 and the search of line 209 in a call.
frame_searched(frame) ==
    [frame EXCEPT !.attempt = NextAttempt(@), !.searches = @ + 1]

\* One pass of the loop of lines 205-219 in a call: the search and its rows
\* succeed ("returns") or an exception of class `outcome` is raised.
frame_attempt(frame, outcome, sleep_outcome) ==
    IF ~LoopCondition(frame.attempt) THEN [frame EXCEPT !.pc = "raised"]
    ELSE IF outcome = "returns" THEN [frame_searched(frame) EXCEPT !.pc = "returned"]
    ELSE frame_on_exception(frame_searched(frame),
                            [cls |-> outcome, attempt |-> NextAttempt(frame.attempt)],
                            sleep_outcome)

\* A run of build_forecast_snapshot on the service: the fetch it is in, the
\* searches its fetches have made, the frame of its current fetch.
SnapshotRun(stage, calls, frame) == [stage |-> stage, calls |-> calls, frame |-> frame]

----------------------------------------------------------------------------

(* The combined forecast, workflow.py and run_once of cli.py *)

\* Mutant: the gap is the projection less the budget.
budget_gap_Reversed(budget, projection) ==
    IF ~budget.some \/ ~projection.some THEN NoneFloat
    ELSE SomeFloat(FloatSub(projection.v, budget.v))

\* A budget-gap field of CombinedForecastResult: budget - projection, None
\* without a budget or without a projection.
budget_gap(budget, projection) ==
    IF ~budget.some \/ ~projection.some THEN NoneFloat
    ELSE SomeFloat(FloatSub(budget.v, projection.v))

\* CombinedForecastInput, built at workflow.py lines 68-75.
CombinedForecastInput(as_of, current_spend, month_to_date_spend, daily_budget, monthly_budget, timezone) ==
    [as_of |-> as_of, current_spend |-> current_spend,
     month_to_date_spend |-> month_to_date_spend, daily_budget |-> daily_budget,
     monthly_budget |-> monthly_budget, timezone |-> timezone]

\* CombinedForecastResult of the daily and the monthly result.
CombinedForecastResult(params, daily, monthly) ==
    [daily |-> daily, monthly |-> monthly,
     daily_budget |-> params.daily_budget, monthly_budget |-> params.monthly_budget,
     daily_budget_gap |-> budget_gap(params.daily_budget, daily.projected_spend),
     monthly_budget_gap |->
         budget_gap(params.monthly_budget, SomeFloat(monthly.projected_month_end_spend))]

\* build_combined_forecast: the daily and the monthly result of the same
\* input, the two budgets and their gaps.
build_combined_forecast(params) ==
    CombinedForecastResult(
        params,
        calculate_daily_projection(
            [as_of |-> params.as_of, current_spend |-> params.current_spend,
             daily_budget |-> params.daily_budget, timezone |-> params.timezone]),
        calculate_monthly_pace(
            [as_of |-> params.as_of, month_to_date_spend |-> params.month_to_date_spend,
             monthly_budget |-> params.monthly_budget, timezone |-> params.timezone]))

\* workflow.py line 54: as_of or datetime.now(timezone.utc); run_once passes
\* reference_time, "given" telling whether it is a datetime or None.
reference_of(run) == IF run.reference_given THEN run.reference_time ELSE run.now

\* workflow.py lines 59-65: the override, else the zone of the daily summary.
snapshot_timezone(timezone_override, daily_summary) ==
    LET summary_tz == daily_summary.as_of.tz
        tz_candidate == IF timezone_override # "None" THEN timezone_override
                        ELSE IF summary_tz # "naive" THEN summary_tz
                        ELSE "None" IN
    coerce_timezone(tz_candidate)

\* ForecastSnapshot, workflow.py lines 34-41.
ForecastSnapshot(as_of, daily_cost, month_to_date_cost, forecast) ==
    [as_of |-> as_of, daily_cost |-> daily_cost,
     month_to_date_cost |-> month_to_date_cost, forecast |-> forecast]

NoSnapshot == [as_of |-> NoDatetime]

\* Mutant: the snapshot takes the month-to-date summary for both costs.
snapshot_of_MonthTwice(run, daily_summary, month_summary) ==
    ForecastSnapshot(daily_summary.as_of, month_summary, month_summary,
                     build_combined_forecast(
                         CombinedForecastInput(
                             daily_summary.as_of,
                             total_cost(daily_summary.total_cost_micros),
                             total_cost(month_summary.total_cost_micros),
                             run.daily_budget, run.monthly_budget,
                             snapshot_timezone(run.timezone_override, daily_summary))))

\* workflow.py lines 59-83: the snapshot of the two summaries.
snapshot_of(run, daily_summary, month_summary) ==
    ForecastSnapshot(daily_summary.as_of, daily_summary, month_summary,
                     build_combined_forecast(
                         CombinedForecastInput(
                             daily_summary.as_of,
                             total_cost(daily_summary.total_cost_micros),
                             total_cost(month_summary.total_cost_micros),
                             run.daily_budget, run.monthly_budget,
                             snapshot_timezone(run.timezone_override, daily_summary))))

\* build_slack_notification_payload: the payload is rendered from the
\* forecast; the layout of its blocks is left to the renderer.
SlackPayload(forecast) == [rendered_from |-> forecast]

NoPayload == [rendered_from |-> "nothing"]

\* A call the run makes on a collaborator, and what it passes.
RunCall(op, arg) == [op |-> op, arg |-> arg]

\* Mutant: the sender is called before the payload is rendered.
dispatch_calls_SenderFirst(forecast, payload) ==
    <<RunCall("sender", payload), RunCall("build_slack_notification_payload", forecast)>>

\* workflow.py lines 94-95: the payload is rendered, then the sender called.
dispatch_calls(forecast, payload) ==
    <<RunCall("build_slack_notification_payload", forecast), RunCall("sender", payload)>>

\* The state of one run of run_once: the step it is at, the calls it has
\* made, the locals daily_summary, month_summary, snapshot and payload, and
\* how it ended.
RunState(status, error, step, calls, daily_summary, month_summary, snapshot, payload, delivered, sender, sender_outcome) ==
    [status |-> status, error |-> error, step |-> step, calls |-> calls,
     daily_summary |-> daily_summary, month_summary |-> month_summary,
     snapshot |-> snapshot, payload |-> payload, delivered |-> delivered,
     sender |-> sender, sender_outcome |-> sender_outcome]

RunStarted == RunState("pending", "", "start", <<>>, NoSummary, NoSummary, NoSnapshot,
                       NoPayload, FALSE, "unbound", "not called")

\* Mutant: the configured sender is resolved for a dry run too.
resolve_sender_Configured(dry_run) == "configured"

\* cli.py lines 541-547: the sender of a dry run is a lambda that does
\* nothing, otherwise the one _resolve_sender_factory gives.
resolve_sender(dry_run) == IF dry_run THEN "lambda" ELSE "configured"

\* Mutant: the error of the sender leaves run_once as it is.
dispatch_error_Unwrapped(outcome) == outcome

\* cli.py lines 554-559: a RunError is raised again, any other Exception
\* is raised as RunError(str(exc)).
dispatch_error(outcome) ==
    CASE outcome = "RunError" -> "RunError"
      [] OTHER -> "RunError"

\* What the sender does with the payload: it returns, raises RunError or
\* raises another Exception.
SenderOutcomes == {"returns", "RunError", "Exception"}

----------------------------------------------------------------------------

(* config.py: the Slack configuration read from the environment *)

\* A text is the sequence of its characters; a variable of the environment
\* is absent or holds a text.
Absent == [present |-> FALSE, text |-> <<>>]
Holding(text) == [present |-> TRUE, text |-> text]

Whitespace == {" "}

RECURSIVE lstrip(_)
lstrip(text) ==
    IF text # <<>> /\ Head(text) \in Whitespace THEN lstrip(Tail(text)) ELSE text

RECURSIVE rstrip(_)
rstrip(text) ==
    IF text # <<>> /\ text[Len(text)] \in Whitespace
    THEN rstrip(SubSeq(text, 1, Len(text) - 1))
    ELSE text

\* str.strip()
strip(text) == rstrip(lstrip(text))

\* str.lower() on the letters the drawn texts hold.
lower_char(c) ==
    CASE c = "T" -> "t" [] c = "R" -> "r" [] c = "U" -> "u" [] c = "E" -> "e"
      [] c = "Y" -> "y" [] c = "S" -> "s" [] c = "O" -> "o" [] c = "N" -> "n"
      [] c = "F" -> "f" [] c = "A" -> "a" [] c = "L" -> "l"
      [] OTHER -> c

lower(text) == [i \in 1..Len(text) |-> lower_char(text[i])]

\* config.py line 94 and line 96.
TrueTexts == {<<"t", "r", "u", "e">>, <<"1">>, <<"y", "e", "s">>, <<"y">>, <<"o", "n">>}
FalseTexts == {<<"f", "a", "l", "s", "e">>, <<"0">>, <<"n", "o">>, <<"n">>, <<"o", "f", "f">>}

\* What a helper of config.py gives: a value, or ConfigError raised.
ConfigValue(value) == [raised |-> FALSE, value |-> value]
ConfigErrorRaised == [raised |-> TRUE, value |-> "ConfigError"]

\* _get_required, config.py lines 48-52.
get_required(values, key) ==
    LET value == strip(IF values[key].present THEN values[key].text ELSE <<>>) IN
    IF value = <<>> THEN ConfigErrorRaised ELSE ConfigValue(value)

\* _get_optional, config.py lines 55-60: None for an absent or blank text.
get_optional(values, key) ==
    IF ~values[key].present THEN Absent
    ELSE IF strip(values[key].text) = <<>> THEN Absent
    ELSE Holding(strip(values[key].text))

\* ZoneInfo(value) for the identifiers drawn: the zone, or a failure.
ZoneInfoOf(text) ==
    CASE text = <<"U", "T", "C">> -> "UTC"
      [] OTHER -> "invalid"

\* _parse_timezone, config.py lines 63-69.
parse_timezone(value) ==
    IF ~value.present THEN ConfigValue("None")
    ELSE IF ZoneInfoOf(value.text) = "invalid" THEN ConfigErrorRaised
    ELSE ConfigValue(ZoneInfoOf(value.text))

\* _parse_bool, config.py lines 90-98.
parse_bool(value, default) ==
    IF ~value.present \/ strip(value.text) = <<>> THEN ConfigValue(default)
    ELSE IF lower(strip(value.text)) \in TrueTexts THEN ConfigValue(TRUE)
    ELSE IF lower(strip(value.text)) \in FalseTexts THEN ConfigValue(FALSE)
    ELSE ConfigErrorRaised

\* The defaults of SlackNotificationOptions, notification.py lines 18-23.
SlackNotificationOptionsDefaults ==
    [account_name |-> Absent, currency_symbol |-> <<"Y">>, timezone |-> "None",
     include_monthly_section |-> TRUE, include_spend_rate |-> FALSE,
     include_average_daily_spend |-> FALSE]

\* SlackNotificationOptions(...) of config.py lines 130-145: the fields
\* the call passes; include_average_daily_spend is not among them and keeps
\* the default of the dataclass.
slack_options(account_name, currency_symbol, timezone, include_monthly_section, include_spend_rate) ==
    [SlackNotificationOptionsDefaults EXCEPT
        !.account_name = account_name,
        !.currency_symbol = currency_symbol,
        !.timezone = timezone,
        !.include_monthly_section = include_monthly_section,
        !.include_spend_rate = include_spend_rate]

NoSlackConfig == [webhook_url |-> <<>>]

ConfigReturned(value) == [status |-> "ok", error |-> "", value |-> value]
ConfigRaised == [status |-> "error", error |-> "ConfigError", value |-> NoSlackConfig]

\* The options once the webhook and the timezone are read, lines 130-147.
load_slack_options(values, webhook_url, timezone) ==
    LET currency == get_optional(values, "SLACK_CURRENCY_SYMBOL")
        monthly == parse_bool(values["SLACK_INCLUDE_MONTHLY_SECTION"],
                              SlackNotificationOptionsDefaults.include_monthly_section)
        rate == parse_bool(values["SLACK_INCLUDE_SPEND_RATE"],
                           SlackNotificationOptionsDefaults.include_spend_rate) IN
    IF monthly.raised \/ rate.raised THEN ConfigRaised
    ELSE ConfigReturned(
            [webhook_url |-> webhook_url,
             options |-> slack_options(
                 get_optional(values, "SLACK_ACCOUNT_NAME"),
                 IF currency.present THEN currency.text
                 ELSE SlackNotificationOptionsDefaults.currency_symbol,
                 coerce_timezone(timezone),
                 monthly.value, rate.value)])

\* load_slack_config, config.py lines 124-147.
load_slack_config(values) ==
    LET webhook_url == get_required(values, "SLACK_WEBHOOK_URL")
        timezone == parse_timezone(get_optional(values, "SLACK_TIMEZONE")) IN
    IF webhook_url.raised \/ timezone.raised THEN ConfigRaised
    ELSE load_slack_options(values, webhook_url.value, timezone.value)

----------------------------------------------------------------------------

(* The schedule helpers applied to drawn arguments *)

\* Bounds of the drawn arguments.
MaxRunCount == 8
MaxScheduleLen == 3

HourChoices == {-1, 0, 8, 23, 24}
MinuteChoices == {-1, 0, 30, 59, 60}

\* DailyScheduleConfig, lines 14-45: a plain dataclass, nothing is checked
\* at construction.
DailyScheduleConfigs ==
    [timezone : {"None", "UTC"},
     start_hour : HourChoices, start_minute : MinuteChoices,
     end_hour : HourChoices, end_minute : MinuteChoices,
     run_count : -1..MaxRunCount]

DailyRequests ==
    [op : {"generate_daily_schedule"}, target_date : {0}, config : DailyScheduleConfigs]

\* Datetimes offered to find_next_run_datetime: 01:00 and 10:00 of two days,
\* naive or in a zone (10:00 in Tokyo is 01:00 UTC).
NextRunDatetimes ==
    { DT(d, m, 0, tz) : d \in {0, 1}, m \in {60, 600}, tz \in {"naive"} \cup Zones }

RECURSIVE SeqsUpTo(_, _)
SeqsUpTo(S, n) ==
    IF n = 0 THEN {<<>>}
    ELSE LET shorter == SeqsUpTo(S, n - 1) IN
         shorter \cup { Append(q, x) : q \in { t \in shorter : Len(t) = n - 1 }, x \in S }

NextRunRequests ==
    [op : {"find_next_run_datetime"}, now : NextRunDatetimes,
     schedule : SeqsUpTo(NextRunDatetimes, MaxScheduleLen),
     timezone : {"None"} \cup Zones]


\* Bound of the `days` argument.
MaxDays == 3

\* Configs offered to generate_upcoming_run_windows.
WindowConfigs ==
    [timezone : {"None", "UTC"},
     start_hour : {8, 24}, start_minute : {0},
     end_hour : {8, 20}, end_minute : {0, 30},
     run_count : {0, 1, 2, 3}]

\* Reference times: around the default runs of 08:00, 14:00 and 20:00, late
\* in the evening and just past a run, naive or in a zone.
WindowNows ==
    { DT(1, m, us, tz) : m \in {0, 480, 840, 1200, 1320}, us \in {0, 1},
                         tz \in {"naive"} \cup Zones }

\* Calls with a config, and calls with config=None.
WindowRequests ==
    [op : {"generate_upcoming_run_windows"}, now : WindowNows, days : -1..MaxDays,
     config_given : {TRUE}, config : WindowConfigs]
    \cup
    [op : {"generate_upcoming_run_windows"}, now : WindowNows, days : -1..MaxDays,
     config_given : {FALSE}, config : {DefaultDailyScheduleConfig}]

\* The same calls made on generate_upcoming_run_times.
UpcomingRequests ==
    { [r EXCEPT !.op = "generate_upcoming_run_times"] : r \in WindowRequests }

\* Environments offered to run_scheduler: windows of one instant, of half
\* an hour and of four hours, a window that ends before it starts, an hour
\* out of range, and run counts from none up.
SchedulerEnvs ==
    [ALERT_TIMEZONE : {"None", "UTC"}, ALERT_START_HOUR : {8, 24},
     ALERT_END_HOUR : {7, 8, 12}, ALERT_END_MINUTE : {0, 30},
     ALERT_RUN_COUNT : 0..3]

\* Values the caller gives its environment after the setup.
LaterEnvs ==
    { e \in SchedulerEnvs : /\ e.ALERT_START_HOUR = 8 /\ e.ALERT_END_HOUR = 12
                            /\ e.ALERT_END_MINUTE = 0 /\ e.ALERT_RUN_COUNT = 2 }

\* Jobs a scheduler holds from an earlier setup.
EarlierJob(index) ==
    CronJob([name |-> "earlier", env_path |-> "None",
             base_env |-> CHOOSE e \in LaterEnvs : e.ALERT_TIMEZONE = "UTC",
             dry_run |-> FALSE],
            <<"daily-alert", index>>, 6, 0, 0, "UTC")

ExistingJobs == {<<>>, <<EarlierJob(0)>>, <<EarlierJob(0), EarlierJob(7)>>}

\* How many times the jobs of one setup are fired.
MaxFires == 2

SchedulerRequests ==
    [op : {"run_scheduler"}, base_env : SchedulerEnvs, dry_run : BOOLEAN,
     today : {1}, jobs : ExistingJobs, offers_remove_all_jobs : BOOLEAN]

\* Amounts offered as spend, in micros, and budgets.
SpendMicros == {0, 1, 249000000, 1200000000}
SpendChoices == { total_cost(m) : m \in SpendMicros }
BudgetChoices == {NoneFloat, SomeFloat(FloatZero), SomeFloat(FloatOfNat(10000))}

\* Reference times of the forecasts: whole minutes of the given dates and
\* one microsecond past their midnights, naive or in a zone.
ForecastAsOfs(dates, minutes) ==
    { DT(d, m, 0, tz) : d \in dates, m \in minutes, tz \in {"naive"} \cup Zones }
    \cup { DT(d, 0, 1, tz) : d \in dates, tz \in {"naive"} \cup Zones }

\* Midnight, just past it, noon, 15:00 (midnight in Tokyo when read in UTC)
\* and 16:40 of the last day of a year and of a day in January.
DailyForecastInputs ==
    [op : {"calculate_daily_projection"},
     as_of : ForecastAsOfs({DayNumber(2023, 12, 31), DayNumber(2024, 1, 10)},
                           {0, 1, 720, 900, 1000}),
     current_spend : SpendChoices, daily_budget : BudgetChoices,
     timezone : {"None", "UTC"}]

\* The last days of a year, of February in a leap year and in another year
\* and of April, and a day in January; at midnight, 15:00 and 23:00.
ForecastDates ==
    {DayNumber(2023, 2, 28), DayNumber(2023, 12, 31), DayNumber(2024, 1, 10),
     DayNumber(2024, 2, 29), DayNumber(2024, 4, 30)}

MonthlyPaceInputs ==
    [op : {"calculate_monthly_pace"}, as_of : ForecastAsOfs(ForecastDates, {0, 900, 1380}),
     month_to_date_spend : SpendChoices, monthly_budget : BudgetChoices,
     timezone : {"None", "UTC"}]

\* Reference times of the reporting windows: the turn of a year, the end of
\* February in a leap year and the first of March; midnight, 10:30, 15:00
\* (midnight in Tokyo when read in UTC) and 23:59.
QueryAsOfs ==
    ForecastAsOfs({DayNumber(2023, 12, 31), DayNumber(2024, 1, 1),
                   DayNumber(2024, 2, 29), DayNumber(2024, 3, 1)},
                  {0, 630, 900, 1439})

QueryRangeRequests ==
    [op : {"build_daily_query_range", "build_month_to_date_query_range"},
     as_of : QueryAsOfs, timezone : {"None"} \cup Zones]

\* build_cost_query applied to the windows of the two builders.
CostQueryRequests ==
    { [op |-> "build_cost_query", as_of |-> a, timezone |-> tz, window |-> w,
       query_range |-> IF w = "daily" THEN build_daily_query_range(a, tz)
                       ELSE build_month_to_date_query_range(a, tz)] :
        a \in QueryAsOfs, tz \in {"None"} \cup Zones, w \in {"daily", "month_to_date"} }

\* Fetches of a service whose config holds `timezone`.
FetchAsOfs ==
    { DT(d, m, 0, tz) : d \in {DayNumber(2023, 12, 31), DayNumber(2024, 2, 29)},
                        m \in {630, 900}, tz \in {"naive", "UTC"} }

FetchRequests ==
    [op : {"fetch_daily_cost", "fetch_month_to_date_cost"},
     as_of : FetchAsOfs, timezone : {"None", "UTC"}]

\* The budgets of a run: a monthly budget far above the spend alone, both
\* budgets zero, or a daily budget above the spend alone.
RunBudgets ==
    { [daily |-> NoneFloat, monthly |-> SomeFloat(FloatOfNat(10000))],
      [daily |-> SomeFloat(FloatZero), monthly |-> SomeFloat(FloatZero)],
      [daily |-> SomeFloat(FloatOfNat(1)), monthly |-> NoneFloat] }

\* Runs of run_once: with a reference time of 15:00 UTC on the 31st of
\* December 2023 (midnight in Tokyo) and no schedule timezone, or without
\* one at a clock of 10:30 UTC on the 29th of February 2024 and a schedule
\* in UTC; the Google Ads config holds no timezone; dry runs and
\* delivering runs are spread over the budgets.
RunRequests ==
    { [op |-> "run_once", reference_given |-> g,
       reference_time |-> DT(DayNumber(2023, 12, 31), 900, 0, "UTC"),
       now |-> DT(DayNumber(2024, 2, 29), 630, 0, "UTC"),
       config_timezone |-> "None",
       timezone_override |-> IF g THEN "None" ELSE "UTC",
       daily_budget |-> b.daily, monthly_budget |-> b.monthly,
       dry_run |-> (g = b.daily.some)] :
        g \in BOOLEAN, b \in RunBudgets }

\* Environments of load_slack_config: the webhook present or missing, a
\* timezone absent, valid or unknown, and the three boolean variables
\* absent, blank, true-like, false-like or unrecognised.
MaybeText == <<"m", "a", "y", "b", "e">>

SlackEnvValues(key) ==
    CASE key = "SLACK_WEBHOOK_URL" -> {Absent, Holding(<<"h", "o", "o", "k">>)}
      [] key = "SLACK_TIMEZONE" -> {Absent, Holding(<<"U", "T", "C">>), Holding(<<"X">>)}
      [] key = "SLACK_ACCOUNT_NAME" -> {Absent}
      [] key = "SLACK_CURRENCY_SYMBOL" -> {Absent, Holding(<<"$">>)}
      [] key = "SLACK_INCLUDE_MONTHLY_SECTION" -> {Absent, Holding(<<"f", "a", "l", "s", "e">>)}
      [] key = "SLACK_INCLUDE_SPEND_RATE" ->
            {Absent, Holding(<<" ", "Y", "e", "s", " ">>), Holding(MaybeText)}
      [] key = "SLACK_INCLUDE_AVERAGE_DAILY_SPEND" ->
            {Absent, Holding(<<" ">>), Holding(<<"t", "r", "u", "e">>), Holding(<<"O", "N">>),
             Holding(<<"0">>), Holding(MaybeText)}

SlackEnvs ==
    { [SLACK_WEBHOOK_URL |-> w, SLACK_TIMEZONE |-> t, SLACK_ACCOUNT_NAME |-> n,
       SLACK_CURRENCY_SYMBOL |-> c, SLACK_INCLUDE_MONTHLY_SECTION |-> m,
       SLACK_INCLUDE_SPEND_RATE |-> r, SLACK_INCLUDE_AVERAGE_DAILY_SPEND |-> a] :
        w \in SlackEnvValues("SLACK_WEBHOOK_URL"), t \in SlackEnvValues("SLACK_TIMEZONE"),
        n \in SlackEnvValues("SLACK_ACCOUNT_NAME"),
        c \in SlackEnvValues("SLACK_CURRENCY_SYMBOL"),
        m \in SlackEnvValues("SLACK_INCLUDE_MONTHLY_SECTION"),
        r \in SlackEnvValues("SLACK_INCLUDE_SPEND_RATE"),
        a \in SlackEnvValues("SLACK_INCLUDE_AVERAGE_DAILY_SPEND") }

SlackConfigRequests == {[op |-> "load_slack_config", env |-> env] : env \in SlackEnvs}

\* Demo transports: the two totals apart, or equal.
DemoTransports == {DemoTransport(1, 3), DemoTransport(2, 2)}

\* Reference instants of the fetches through a demo transport: the middle
\* and the first day of June 2024 and the last day of 2023, whose afternoon
\* in UTC is the first of January in Tokyo.
DemoAsOfs ==
    { DT(d, m, 0, tz) :
        d \in {DayNumber(2024, 6, 15), DayNumber(2024, 6, 1), DayNumber(2023, 12, 31)},
        m \in {0, 900}, tz \in {"naive", "UTC"} }

DemoFetchRequests ==
    [op : {"fetch_daily_cost", "fetch_month_to_date_cost"}, as_of : DemoAsOfs,
     timezone : {"None", "UTC"}, transport : DemoTransports]

\* Queries handed to search directly: one without a date filter, the filter
\* alone, one with wide blanks and one naming the 31st of June.
DemoQueries ==
    { <<"SELECT metrics.cost_micros FROM campaign">>,
      DateFilter(DateText(DayNumber(2024, 6, 1)), DateText(DayNumber(2024, 6, 15))),
      <<SelectFromCustomer, " ", "WHERE", " ", " ", "segments.date", " ", "BETWEEN", " ">>
          \o <<"'">> \o DateText(DayNumber(2024, 6, 15)) \o <<"'", " ", " ", "AND", " ", "'">>
          \o DateText(DayNumber(2024, 6, 15)) \o <<"'">>,
      DateFilter(<<"2", "0", "2", "4", "-", "0", "6", "-", "3", "1">>,
                 DateText(DayNumber(2024, 6, 15))),
      <<"WHERE", " ", "segments.date", " ", "BETWEEN", "'">>
          \o DateText(DayNumber(2024, 6, 15)) \o <<"'", " ", "AND", " ", "'">>
          \o DateText(DayNumber(2024, 6, 15)) \o <<"'">> }

DemoSearchRequests == [op : {"search"}, transport : DemoTransports, query : DemoQueries]

vars == <<fetchVars, scheduleVars>>

NoRequest == [op |-> "none"]

NoResponse == Response("pending", "", <<>>, FALSE, NoDatetime)

\* The service as constructed with `cfg`, no fetch started.
ServiceConstructed(cfg) ==
    /\ retry_config = cfg
    /\ pc = "idle"
    /\ kind = "daily"
    /\ attempt = 0
    /\ delay = 0
    /\ last_error = NoError
    /\ total_micros = 0
    /\ rows = <<>>
    /\ log = <<>>
    /\ thrown = NoError
    /\ transport_failures = 0
    /\ result = NoSummary
    /\ raised = NoError
    /\ discarded = FALSE

Init ==
    /\ \E cfg \in RetryConfigs : ServiceConstructed(cfg)
    /\ request = NoRequest
    /\ response = NoResponse

Next ==
    \/ StartFetch
    \/ SearchCall
    \/ RowYield
    \/ IterationRaises
    \/ IterationEnds

Spec == Init /\ [][Next]_vars

\* Services whose backoff starts at 0 or 1 and doubles.
InitFetchLive ==
    /\ \E cfg \in RetryConfigs :
          /\ cfg.initial_backoff_seconds \in {0, 1}
          /\ cfg.backoff_multiplier = 2
          /\ ServiceConstructed(cfg)
    /\ request = NoRequest
    /\ response = NoResponse

\* The fetch under the assumption that every call of transport.search and of
\* sleep returns or raises and that every iterator ends after finitely many
\* rows: the loop head runs whenever the fetch is at it, and an open
\* iterator yields, raises or ends.
SpecFetchLive ==
    /\ InitFetchLive
    /\ [][Next]_vars
    /\ WF_vars(SearchCall)
    /\ WF_vars(RowYield \/ IterationRaises \/ IterationEnds)

----------------------------------------------------------------------------
(* The schedule helpers as specifications of their own *)

GenerateDailySchedule ==
    /\ request.op = "generate_daily_schedule"
    /\ response.status = "pending"
    /\ response' = generate_daily_schedule(request.target_date, request.config)
    /\ UNCHANGED <<request, fetchVars>>

FindNextRunDatetime ==
    /\ request.op = "find_next_run_datetime"
    /\ response.status = "pending"
    /\ response' = find_next_run_datetime(request.now, request.schedule, request.timezone)
    /\ UNCHANGED <<request, fetchVars>>

\* RetryConfig(), lines 56-59.
DefaultRetryConfig ==
    [max_attempts |-> 3, initial_backoff_seconds |-> 1, backoff_multiplier |-> 2,
     retryable_exceptions |-> DefaultRetryable]

InitSchedule ==
    /\ ServiceConstructed(DefaultRetryConfig)
    /\ request \in DailyRequests
    /\ response = NoResponse

NextSchedule == GenerateDailySchedule

SpecSchedule == InitSchedule /\ [][NextSchedule]_vars

InitNextRun ==
    /\ ServiceConstructed(DefaultRetryConfig)
    /\ request \in NextRunRequests
    /\ response = NoResponse

NextNextRun == FindNextRunDatetime

SpecNextRun == InitNextRun /\ [][NextNextRun]_vars

----------------------------------------------------------------------------
GenerateUpcomingRunWindows ==
    /\ request.op = "generate_upcoming_run_windows"
    /\ response.status = "pending"
    /\ response' = generate_upcoming_run_windows(request.now, request.days,
                                                 request.config_given, request.config)
    /\ UNCHANGED <<request, fetchVars>>

InitWindows ==
    /\ ServiceConstructed(DefaultRetryConfig)
    /\ request \in WindowRequests
    /\ response = NoResponse

NextWindows == GenerateUpcomingRunWindows

SpecWindows == InitWindows /\ [][NextWindows]_vars

GenerateUpcomingRunTimes ==
    /\ request.op = "generate_upcoming_run_times"
    /\ response.status = "pending"
    /\ response' = generate_upcoming_run_times(request.now, request.days,
                                               request.config_given, request.config)
    /\ UNCHANGED <<request, fetchVars>>

InitUpcoming ==
    /\ ServiceConstructed(DefaultRetryConfig)
    /\ request \in UpcomingRequests
    /\ response = NoResponse

NextUpcoming == GenerateUpcomingRunTimes

SpecUpcoming == InitUpcoming /\ [][NextUpcoming]_vars

\* run_scheduler is called and ends.
RunScheduler ==
    /\ request.op = "run_scheduler"
    /\ response.status = "pending"
    /\ response' = run_scheduler(request.base_env, request.dry_run, request.today,
                                 request.jobs, request.offers_remove_all_jobs)
    /\ UNCHANGED <<request, fetchVars>>

\* The caller changes its environment after the setup.
CallerChangesEnv ==
    /\ request.op = "run_scheduler"
    /\ response.status = "returned"
    /\ \E env \in LaterEnvs :
          /\ env # response.caller_env
          /\ response' = [response EXCEPT !.caller_env = env]
    /\ UNCHANGED <<request, fetchVars>>

\* The scheduler fires one of the jobs run_scheduler registered.
JobFires ==
    /\ request.op = "run_scheduler"
    /\ response.status = "returned"
    /\ response.fired < MaxFires
    /\ \E j \in 1..Len(response.jobs) :
          /\ response.jobs[j].func.name = "_job"
          /\ response' = [response EXCEPT
                 !.run_once_calls = Append(@, job_run_once(response.jobs[j].func)),
                 !.fired = @ + 1]
    /\ UNCHANGED <<request, fetchVars>>

InitScheduler ==
    /\ ServiceConstructed(DefaultRetryConfig)
    /\ request \in SchedulerRequests
    /\ response = SchedulerState("pending", request.base_env, request.base_env,
                                 request.jobs, <<>>, <<>>, 0)

NextScheduler == RunScheduler \/ CallerChangesEnv \/ JobFires

SpecScheduler == InitScheduler /\ [][NextScheduler]_vars

ForecastReturned(value) == [status |-> "ok", error |-> "", value |-> value]

CalculateDailyProjection ==
    /\ request.op = "calculate_daily_projection"
    /\ response.status = "pending"
    /\ response' = ForecastReturned(calculate_daily_projection(request))
    /\ UNCHANGED <<request, fetchVars>>

CalculateMonthlyPace ==
    /\ request.op = "calculate_monthly_pace"
    /\ response.status = "pending"
    /\ response' = ForecastReturned(calculate_monthly_pace(request))
    /\ UNCHANGED <<request, fetchVars>>

InitForecast ==
    /\ ServiceConstructed(DefaultRetryConfig)
    /\ request \in DailyForecastInputs \cup MonthlyPaceInputs
    /\ response = NoResponse

NextForecast ==
    \/ CalculateDailyProjection
    \/ CalculateMonthlyPace

SpecForecast == InitForecast /\ [][NextForecast]_vars

----------------------------------------------------------------------------
(* The reporting windows and the fetches as a specification *)

BuildDailyQueryRange ==
    /\ request.op = "build_daily_query_range"
    /\ response.status = "pending"
    /\ response' = ForecastReturned(build_daily_query_range(request.as_of, request.timezone))
    /\ UNCHANGED <<request, fetchVars>>

BuildMonthToDateQueryRange ==
    /\ request.op = "build_month_to_date_query_range"
    /\ response.status = "pending"
    /\ response' = ForecastReturned(build_month_to_date_query_range(request.as_of,
                                                                    request.timezone))
    /\ UNCHANGED <<request, fetchVars>>

BuildCostQuery ==
    /\ request.op = "build_cost_query"
    /\ response.status = "pending"
    /\ response' = ForecastReturned(build_cost_query(request.query_range))
    /\ UNCHANGED <<request, fetchVars>>

IsFetchRequest == request.op \in {"fetch_daily_cost", "fetch_month_to_date_cost"}

\* The fetch is called: lines 228-231 and 243-246.
FetchCostCalled ==
    /\ IsFetchRequest
    /\ pc = "idle"
    /\ EnterCostQuery(IF request.op = "fetch_daily_cost" THEN "daily" ELSE "month_to_date")
    /\ UNCHANGED scheduleVars

\* _execute_cost_query has returned: lines 233-238 and 248-253.
FetchCostReturns ==
    /\ IsFetchRequest
    /\ pc = "returned"
    /\ response.status = "pending"
    /\ response' = ForecastReturned(
                       IF kind = "daily"
                       THEN fetch_daily_cost(request.timezone, request.as_of,
                                             result.total_cost_micros)
                       ELSE fetch_month_to_date_cost(request.timezone, request.as_of,
                                                     result.total_cost_micros))
    /\ UNCHANGED <<request, fetchVars>>

\* _execute_cost_query has raised: the error leaves the fetch.
FetchCostRaises ==
    /\ IsFetchRequest
    /\ pc = "raised"
    /\ response.status = "pending"
    /\ response' = [status |-> "raised", error |-> raised.cls, value |-> NoSummary]
    /\ UNCHANGED <<request, fetchVars>>

InitQueryRange ==
    /\ ServiceConstructed(DefaultRetryConfig)
    /\ request \in QueryRangeRequests \cup CostQueryRequests \cup FetchRequests
    /\ response = NoResponse

NextQueryRange ==
    \/ BuildDailyQueryRange
    \/ BuildMonthToDateQueryRange
    \/ BuildCostQuery
    \/ FetchCostCalled
    \/ SearchCall
    \/ RowYield
    \/ IterationRaises
    \/ IterationEnds
    \/ FetchCostReturns
    \/ FetchCostRaises

SpecQueryRange == InitQueryRange /\ [][NextQueryRange]_vars

----------------------------------------------------------------------------
(* run_once as a specification: cli.py lines 494-573 *)

\* The frame of _execute_cost_query is gone once its value is taken.
FetchFrameReleased ==
    /\ pc' = "idle"
    /\ kind' = "daily"
    /\ attempt' = 0
    /\ delay' = 0
    /\ last_error' = NoError
    /\ total_micros' = 0
    /\ rows' = <<>>
    /\ log' = <<>>
    /\ thrown' = NoError
    /\ transport_failures' = 0
    /\ result' = NoSummary
    /\ raised' = NoError
    /\ discarded' = FALSE
    /\ UNCHANGED retry_config

\* cli.py lines 516-524 and workflow.py lines 54-56: the service is built
\* and build_forecast_snapshot calls fetch_daily_cost(reference).
RunFetchDaily ==
    /\ request.op = "run_once"
    /\ response.step = "start"
    /\ pc = "idle"
    /\ response' = [response EXCEPT
           !.step = "fetch_daily",
           !.calls = Append(@, RunCall("fetch_daily_cost", reference_of(request)))]
    /\ EnterCostQuery("daily")
    /\ UNCHANGED request

\* workflow.py lines 56-57: the daily summary is returned and
\* fetch_month_to_date_cost(reference) is called.
DailyCostReturns ==
    /\ request.op = "run_once"
    /\ response.step = "fetch_daily"
    /\ pc = "returned"
    /\ response' = [response EXCEPT
           !.step = "fetch_month",
           !.daily_summary = fetch_daily_cost(request.config_timezone,
                                              response.calls[1].arg,
                                              result.total_cost_micros),
           !.calls = Append(@, RunCall("fetch_month_to_date_cost", reference_of(request)))]
    /\ EnterCostQuery("month_to_date")
    /\ UNCHANGED request

\* workflow.py line 57: the month-to-date summary is returned.
MonthToDateCostReturns ==
    /\ request.op = "run_once"
    /\ response.step = "fetch_month"
    /\ pc = "returned"
    /\ response' = [response EXCEPT
           !.step = "forecast",
           !.month_summary = fetch_month_to_date_cost(request.config_timezone,
                                                      response.calls[2].arg,
                                                      result.total_cost_micros)]
    /\ FetchFrameReleased
    /\ UNCHANGED request

\* A fetch raises: the error leaves build_forecast_snapshot and run_once,
\* which catch nothing there.
RunFetchRaises ==
    /\ request.op = "run_once"
    /\ response.step \in {"fetch_daily", "fetch_month"}
    /\ pc = "raised"
    /\ response' = [response EXCEPT !.step = "failed", !.status = "raised",
                                    !.error = raised.cls]
    /\ UNCHANGED <<request, fetchVars>>

\* workflow.py lines 59-83 and cli.py lines 531-548: the forecast and the
\* snapshot are built and the sender is chosen.
BuildForecastSnapshot ==
    /\ request.op = "run_once"
    /\ response.step = "forecast"
    /\ response' = [response EXCEPT
           !.step = "dispatch",
           !.snapshot = snapshot_of(request, response.daily_summary,
                                    response.month_summary),
           !.calls = Append(@, RunCall("build_combined_forecast",
                                       response.daily_summary.as_of)),
           !.sender = resolve_sender(request.dry_run),
           !.delivered = ~request.dry_run]
    /\ UNCHANGED <<request, fetchVars>>

\* dispatch_slack_alert, workflow.py lines 86-96, inside the try of cli.py
\* lines 550-573: the payload is rendered and handed to the sender once; the
\* sender of a dry run is a lambda that returns. What the sender raises
\* leaves run_once as dispatch_error gives it, and no RunResult is built.
DispatchSlackAlert ==
    /\ request.op = "run_once"
    /\ response.step = "dispatch"
    /\ \E outcome \in SenderOutcomes :
          LET payload == SlackPayload(response.snapshot.forecast)
              calls == response.calls
                         \o dispatch_calls(response.snapshot.forecast, payload) IN
          /\ response.sender = "lambda" => outcome = "returns"
          /\ response' =
                IF outcome = "returns"
                THEN [response EXCEPT !.step = "done", !.status = "ok",
                                      !.calls = calls, !.payload = payload,
                                      !.sender_outcome = outcome]
                ELSE [response EXCEPT !.step = "failed", !.status = "raised",
                                      !.error = dispatch_error(outcome),
                                      !.calls = calls, !.sender_outcome = outcome]
    /\ UNCHANGED <<request, fetchVars>>

InitRun ==
    /\ ServiceConstructed(DefaultRetryConfig)
    /\ request \in RunRequests
    /\ response = RunStarted

NextRun ==
    \/ RunFetchDaily
    \/ SearchCall
    \/ RowYield
    \/ IterationRaises
    \/ IterationEnds
    \/ DailyCostReturns
    \/ MonthToDateCostReturns
    \/ RunFetchRaises
    \/ BuildForecastSnapshot
    \/ DispatchSlackAlert

SpecRun == InitRun /\ [][NextRun]_vars

----------------------------------------------------------------------------
----------------------------------------------------------------------------
(* load_slack_config as a specification: config.py lines 124-147 *)

LoadSlackConfig ==
    /\ request.op = "load_slack_config"
    /\ response.status = "pending"
    /\ response' = load_slack_config(request.env)
    /\ UNCHANGED <<request, fetchVars>>

InitSlackConfig ==
    /\ ServiceConstructed(DefaultRetryConfig)
    /\ request \in SlackConfigRequests
    /\ response = NoResponse

NextSlackConfig == LoadSlackConfig

SpecSlackConfig == InitSlackConfig /\ [][NextSlackConfig]_vars

----------------------------------------------------------------------------
(* The fetches through the demo transport as a specification *)

\* DemoTransport.search called by itself.
DemoTransportSearch ==
    /\ request.op = "search"
    /\ response.status = "pending"
    /\ response' = ForecastReturned(demo_search(request.transport, request.query))
    /\ UNCHANGED <<request, fetchVars>>

\* One attempt of _execute_cost_query on the demo transport, lines 205-219:
\* search returns its list, whose rows are summed and the total returned, or
\* it raises.
DemoSearchCall ==
    /\ IsFetchRequest
    /\ pc = "loop"
    /\ LoopCondition(attempt)
    /\ UNCHANGED <<retry_config, kind, discarded, scheduleVars>>
    /\ attempt' = NextAttempt(attempt)
    /\ LET found == demo_search(request.transport,
                                build_cost_query(fetch_query_range(request.op,
                                                 request.timezone, request.as_of)))
           cost == IF found.raises = "None" THEN extract_cost_micros(found.rows[1])
                   ELSE Err(found.raises) IN
       IF cost.ok
       THEN /\ total_micros' = cost.value
            /\ rows' = found.rows
            /\ log' = Append(log, SearchEvent)
            /\ pc' = "returned"
            /\ result' = Summary(kind, cost.value)
            /\ UNCHANGED <<delay, last_error, thrown, raised, transport_failures>>
       ELSE /\ total_micros' = 0
            /\ transport_failures' = transport_failures + 1
            /\ OnException([cls |-> cost.cls, attempt |-> NextAttempt(attempt)],
                           NextAttempt(attempt), Append(log, SearchEvent))
            /\ UNCHANGED result

InitDemo ==
    /\ ServiceConstructed(DefaultRetryConfig)
    /\ request \in DemoFetchRequests \cup DemoSearchRequests
    /\ response = NoResponse

NextDemo ==
    \/ FetchCostCalled
    \/ DemoSearchCall
    \/ FetchCostReturns
    \/ DemoTransportSearch

SpecDemo == InitDemo /\ [][NextDemo]_vars

----------------------------------------------------------------------------
(* Two snapshots built on one service at the same time *)

Runs == {1, 2}

\* workflow.py lines 56-57: the run calls fetch_daily_cost, and
\* fetch_month_to_date_cost once the daily fetch has returned.
RunCallsFetch(r) ==
    /\ request.op = "overlap"
    /\ LET run == response.runs[r] IN
       /\ \/ run.stage = "start"
          \/ run.stage = "daily" /\ run.frame.pc = "returned"
       /\ response' = [response EXCEPT !.runs[r] =
              SnapshotRun(IF run.stage = "start" THEN "daily" ELSE "month", run.calls,
                          enter_cost_query(IF run.stage = "start" THEN "daily"
                                           ELSE "month_to_date", run.frame))]
    /\ UNCHANGED <<request, fetchVars>>

\* The fetch of the run makes one pass of its loop.
RunFetchAttempt(r) ==
    /\ request.op = "overlap"
    /\ response.runs[r].frame.pc = "loop"
    /\ \E outcome \in {"returns"} \cup TransportErrorClasses, sleep_outcome \in SleepOutcomes :
          LET run == response.runs[r]
              after == frame_attempt(run.frame, outcome, sleep_outcome) IN
          response' = [response EXCEPT !.runs[r] =
              SnapshotRun(run.stage, run.calls + (after.searches - run.frame.searches), after)]
    /\ UNCHANGED <<request, fetchVars>>

\* The snapshot is built once the month-to-date fetch has returned; an
\* error of either fetch leaves build_forecast_snapshot.
RunFetchesEnd(r) ==
    /\ request.op = "overlap"
    /\ LET run == response.runs[r] IN
       /\ \/ run.stage = "month" /\ run.frame.pc = "returned"
          \/ run.stage \in {"daily", "month"} /\ run.frame.pc = "raised"
       /\ response' = [response EXCEPT !.runs[r].stage =
              IF run.frame.pc = "returned" THEN "done" ELSE "failed"]
    /\ UNCHANGED <<request, fetchVars>>

InitOverlap ==
    /\ \E cfg \in RetryConfigs : ServiceConstructed(cfg)
    /\ request = [op |-> "overlap"]
    /\ response = [runs |-> [r \in Runs |-> SnapshotRun("start", 0, NoFrame)]]

NextOverlap == \E r \in Runs : RunCallsFetch(r) \/ RunFetchAttempt(r) \/ RunFetchesEnd(r)

SpecOverlap == InitOverlap /\ [][NextOverlap]_vars

(* Claims about the retry loop *)

Terminal == pc \in {"returned", "raised"}

LastEvent == log[Len(log)]

RECURSIVE Pow(_, _)
Pow(b, e) == IF e = 0 THEN 1 ELSE b * Pow(b, e - 1)

\* C1: one fetch calls transport.search at most max_attempts times, and a
\* finished fetch has called it at least once.
C1_SearchCallsBounded ==
    /\ NumSearch <= retry_config.max_attempts
    /\ Terminal => NumSearch >= 1

C1_Witness ==
    /\ pc = "raised"
    /\ retry_config.max_attempts = 3
    /\ NumSearch = 3

\* The calls alternate search, sleep, search, ...: exactly one sleep lies
\* between two consecutive search calls.
LogAlternates ==
    \A i \in 1..Len(log) :
        log[i].op = (IF i % 2 = 1 THEN "search" ELSE "sleep")

\* The j-th sleep argument is initial_backoff_seconds multiplied j - 1 times
\* by backoff_multiplier.
SleepArgsGeometric ==
    \A j \in 1..Len(SleepArgs(log)) :
        SleepArgs(log)[j] =
            retry_config.initial_backoff_seconds * Pow(retry_config.backoff_multiplier, j - 1)

\* C2 as stated: for every allowed RetryConfig each retried failure is
\* followed by exactly one sleep call before the next search call, with the
\* geometric arguments.
C2_Original == LogAlternates /\ SleepArgsGeometric

\* C2 amended: with initial_backoff_seconds > 0 each retried failure is
\* followed by exactly one sleep call before the next search call and the
\* j-th argument is initial_backoff_seconds * backoff_multiplier^(j-1); with
\* initial_backoff_seconds = 0 sleep is never called.
C2_SleepBetweenAttempts ==
    /\ retry_config.initial_backoff_seconds > 0 => LogAlternates /\ SleepArgsGeometric
    /\ retry_config.initial_backoff_seconds = 0 => NumSleep = 0

C2_Witness ==
    /\ retry_config.initial_backoff_seconds = 1
    /\ retry_config.backoff_multiplier = 2
    /\ SleepArgs(log) = <<1, 2>>
    /\ NumSearch = 3

\* C3: an exception of the transport that does not match
\* retryable_exceptions ends the fetch at once: the fetch raises that same
\* exception, and the search call that raised it is the last call made.
C3_NonRetryablePropagates ==
    (thrown.cls \in TransportErrorClasses /\ ~is_retryable(thrown)) =>
        /\ pc = "raised"
        /\ raised = thrown
        /\ LastEvent = SearchEvent
        /\ NumSearch = thrown.attempt

C3_Witness ==
    /\ pc = "raised"
    /\ raised.cls = "PermissionError"
    /\ ~is_retryable(raised)
    /\ raised.attempt = 2
    /\ retry_config.max_attempts = 3
    /\ delay > 0

C5_Original ==
    pc = "returned" =>
        /\ NumSearch = transport_failures + 1
        /\ LastEvent = SearchEvent
        /\ retry_config.initial_backoff_seconds > 0 => NumSleep = transport_failures

----------------------------------------------------------------------------
(* Claims about the aggregation *)

\* The field, or the "metrics" mapping, is missing.
C6_Missing(row) ==
    \/ row.is_dict /\ ~row.has_metrics
    \/ row.is_dict /\ row.has_metrics /\ row.metrics_is_dict /\ ~row.has_cost

\* The field is an int, a finite float or an integer literal.
C6_Numeric(row) ==
    /\ row.is_dict /\ row.has_metrics /\ row.metrics_is_dict /\ row.has_cost
    /\ \/ row.cost.t = "int"
       \/ row.cost.t = "float" /\ row.cost.f = "finite"
       \/ row.cost.t = "str" /\ \E p \in IntLiterals : p[1] = row.cost.s

\* The integer value of a numeric field: the integer itself, the integral
\* part of a float, the number an integer literal denotes.
C6_IntegerValue(row) ==
    IF row.cost.t = "int" THEN row.cost.n
    ELSE IF row.cost.t = "float"
    THEN CHOOSE k \in -8..8 :
            \/ row.cost.h >= 0 /\ 2 * k <= row.cost.h /\ row.cost.h < 2 * k + 2
            \/ row.cost.h < 0 /\ 2 * k >= row.cost.h /\ row.cost.h > 2 * k - 2
    ELSE CHOOSE n \in 0..9 : <<row.cost.s, n>> \in IntLiterals

RECURSIVE C6_Sum(_)
C6_Sum(rs) ==
    IF rs = <<>> THEN 0
    ELSE (IF C6_Missing(Head(rs)) THEN 0 ELSE C6_IntegerValue(Head(rs))) + C6_Sum(Tail(rs))

\* C6: the total of a returned summary is the sum, over the rows of the
\* successful search, of the integer value of each numeric cost field and of
\* 0 for each row whose field or "metrics" mapping is missing.
C6_TotalIsSum ==
    (pc = "returned" /\ \A i \in 1..Len(rows) : C6_Missing(rows[i]) \/ C6_Numeric(rows[i])) =>
        result = Summary(kind, C6_Sum(rows))

C6_Witness ==
    /\ pc = "returned"
    /\ rows = <<CostRow(StrVal("2")), CostRow(FloatVal(-3))>>
    /\ result.total_cost_micros = 1

\* C7 as stated: whatever the shape of a yielded row, the fetch goes on
\* iterating without raising and without any sleep or search call, and the
\* row adds 0 or its integer value to the total.
C7_Original ==
    [][ RowYield =>
          /\ pc' = "iterating"
          /\ log' = log
          /\ raised' = raised
          /\ \E row \in RowShapes :
                /\ rows' = Append(rows, row)
                /\ \/ total_micros' = total_micros
                   \/ /\ C6_Numeric(row)
                      /\ total_micros' = total_micros + C6_IntegerValue(row) ]_vars

----------------------------------------------------------------------------
(* Claims about find_next_run_datetime *)

\* The instant of a datetime in minutes since the UTC midnight of day 0, a
\* naive one being read in the working timezone `w`.
C8_InstantMinutes(dt, w) ==
    dt.day * MinutesPerDay + dt.minute - UtcOffset(IF dt.tz = "naive" THEN w ELSE dt.tz)

C8_Before(a, b, w) ==
    \/ C8_InstantMinutes(a, w) < C8_InstantMinutes(b, w)
    \/ C8_InstantMinutes(a, w) = C8_InstantMinutes(b, w) /\ a.micro < b.micro

C8_WorkingTimezone == ResolveTimezone(request.now, request.schedule, request.timezone)

\* C8: find_next_run_datetime returns None exactly when now is strictly
\* after every entry (so for the empty schedule too); otherwise it returns,
\* in the working timezone, an entry that is not before now and that no
\* other such entry precedes.
C8_NextRunIsMinimum ==
    response.status = "ok" =>
        LET w == C8_WorkingTimezone
            S == request.schedule
            past(e) == C8_Before(e, request.now, w) IN
        /\ ~response.found <=> \A i \in 1..Len(S) : past(S[i])
        /\ response.found =>
              /\ response.value.tz = w
              /\ ~past(response.value)
              /\ \E i \in 1..Len(S) :
                    /\ ~C8_Before(S[i], response.value, w)
                    /\ ~C8_Before(response.value, S[i], w)
              /\ \A j \in 1..Len(S) :
                    ~past(S[j]) => ~C8_Before(S[j], response.value, w)

\* An unsorted schedule of naive and aware entries, now in another zone
\* than the working one, and the entry returned is the one equal to now.
C8_Witness ==
    /\ response.status = "ok"
    /\ response.found
    /\ Len(request.schedule) = 3
    /\ request.schedule[1].tz = "naive"
    /\ request.schedule[2].tz = "UTC"
    /\ request.now.tz = "Asia/Tokyo"
    /\ C8_WorkingTimezone = "UTC"
    /\ C8_Before(request.schedule[3], request.schedule[1], "UTC")
    /\ C8_Before(request.schedule[3], request.now, "UTC")
    /\ C8_InstantMinutes(response.value, "UTC") = C8_InstantMinutes(request.now, "UTC")

----------------------------------------------------------------------------
(* Claims about generate_daily_schedule *)

C9_HoursAndMinutesValid(cfg) ==
    /\ cfg.start_hour \in 0..23 /\ cfg.end_hour \in 0..23
    /\ cfg.start_minute \in 0..59 /\ cfg.end_minute \in 0..59

C9_StartMinute(cfg) == cfg.start_hour * 60 + cfg.start_minute
C9_EndMinute(cfg) == cfg.end_hour * 60 + cfg.end_minute

\* A valid DailyScheduleConfig: section 3 of the specification.
C9_Valid(cfg) ==
    /\ C9_HoursAndMinutesValid(cfg)
    /\ cfg.run_count >= 1
    /\ cfg.run_count > 1 => C9_EndMinute(cfg) >= C9_StartMinute(cfg)

C9_Anchor(minute_of_day) ==
    DT(request.target_date, minute_of_day, 0, coerce_timezone(request.config.timezone))

\* Entry k (counted from 1) lies exactly (k-1)/(run_count-1) of the way from
\* the start anchor to the end anchor.
C9_Exact(cfg, k) ==
    LET e == response.schedule[k]
        span == (C9_EndMinute(cfg) - C9_StartMinute(cfg)) * (k - 1)
        dm == (e.day - request.target_date) * MinutesPerDay + e.minute - C9_StartMinute(cfg) IN
    /\ dm = span \div (cfg.run_count - 1)
    /\ e.micro * (cfg.run_count - 1) = (span % (cfg.run_count - 1)) * MicrosPerMinute

\* Entry k lies within half a microsecond of that point.
C9_Nearest(cfg, k) ==
    LET e == response.schedule[k]
        span == (C9_EndMinute(cfg) - C9_StartMinute(cfg)) * (k - 1)
        dm == (e.day - request.target_date) * MinutesPerDay + e.minute - C9_StartMinute(cfg)
        diff == e.micro * (cfg.run_count - 1)
                - (span % (cfg.run_count - 1)) * MicrosPerMinute IN
    /\ dm = span \div (cfg.run_count - 1)
    /\ 2 * diff <= cfg.run_count - 1
    /\ 2 * diff >= -(cfg.run_count - 1)

\* What C9 says apart from the position of the entries.
C9_Shape(cfg) ==
    /\ response.status = "ok"
    /\ Len(response.schedule) = cfg.run_count
    /\ \A k \in 1..(cfg.run_count - 1) :
          ~DtLess(response.schedule[k + 1], response.schedule[k])
    /\ response.schedule[1] = C9_Anchor(C9_StartMinute(cfg))
    /\ cfg.run_count >= 2 =>
          response.schedule[cfg.run_count] = C9_Anchor(C9_EndMinute(cfg))

\* C9 as stated: for a valid config the result has run_count entries in
\* non-decreasing order, from the start anchor to the end anchor, and entry i
\* is exactly start + i * (end - start) / (run_count - 1).
C9_Original ==
    (response.status # "pending" /\ C9_Valid(request.config)) =>
        /\ C9_Shape(request.config)
        /\ request.config.run_count >= 2 =>
              \A k \in 1..request.config.run_count : C9_Exact(request.config, k)

\* C9 amended: the same, entry i being start + i * (end - start) /
\* (run_count - 1) rounded to the nearest microsecond.
C9_EvenlySpacedToMicrosecond ==
    (response.status # "pending" /\ C9_Valid(request.config)) =>
        /\ C9_Shape(request.config)
        /\ request.config.run_count >= 2 =>
              \A k \in 1..request.config.run_count : C9_Nearest(request.config, k)

\* Eight runs over a span that seven does not divide: an entry between two
\* microseconds.
C9_Witness ==
    /\ response.status = "ok"
    /\ request.config.run_count = 8
    /\ Len(response.schedule) = 8
    /\ response.schedule[2].micro # 0
    /\ response.schedule[8] = C9_Anchor(C9_EndMinute(request.config))

\* C10 as stated: a config with an hour outside 0..23 or a minute outside
\* 0..59 makes the call raise, whatever run_count is.
C10_Original ==
    (response.status # "pending" /\ ~C9_HoursAndMinutesValid(request.config)) =>
        /\ response.status = "error"
        /\ response.schedule = <<>>

----------------------------------------------------------------------------
(* Claims about the validation of generate_daily_schedule *)

\* The end anchor of `cfg` lies before its start anchor on the same date.
C11_EndBeforeStart(cfg) ==
    /\ C9_HoursAndMinutesValid(cfg)
    /\ C9_EndMinute(cfg) < C9_StartMinute(cfg)

\* C11: every run_count <= 0 raises; run_count > 1 with an end anchor before
\* the start anchor raises; run_count = 1 with an end anchor before the start
\* anchor is accepted and returns [start_anchor].
C11_RunCountAndOrderValidated ==
    response.status # "pending" =>
        LET cfg == request.config IN
        /\ cfg.run_count <= 0 =>
              /\ response.status = "error"
              /\ C9_HoursAndMinutesValid(cfg) => response.error = "run_count"
        /\ (cfg.run_count > 1 /\ C11_EndBeforeStart(cfg)) =>
              /\ response.status = "error"
              /\ response.error = "end_before_start"
        /\ (cfg.run_count = 1 /\ C11_EndBeforeStart(cfg)) =>
              /\ response.status = "ok"
              /\ response.schedule = <<C9_Anchor(C9_StartMinute(cfg))>>

\* Three runs from 23:00 back to 08:00 were rejected.
C11_Witness ==
    /\ request.config.run_count = 3
    /\ request.config.start_hour = 23
    /\ request.config.end_hour = 8
    /\ response.status = "error"
    /\ response.error = "end_before_start"

----------------------------------------------------------------------------
(* Claims about generate_upcoming_run_windows *)

\* The timezone the windows are computed in: the config's, else the zone of
\* now, else the default.
C12_Zone ==
    LET cfg == IF request.config_given THEN request.config ELSE DefaultDailyScheduleConfig IN
    IF cfg.timezone # "None" THEN cfg.timezone
    ELSE IF request.now.tz # "naive" THEN request.now.tz
    ELSE DEFAULT_TZ

\* The local calendar day of now in that zone.
C12_Today ==
    (C8_InstantMinutes(request.now, C12_Zone) + UtcOffset(C12_Zone)) \div MinutesPerDay

\* The schedule of day `d` for the call's config.
C12_ScheduleOf(d) ==
    generate_daily_schedule(d,
        [(IF request.config_given THEN request.config ELSE DefaultDailyScheduleConfig)
            EXCEPT !.timezone = C12_Zone])

\* The entries of `schedule` that are not before now, in order.
C12_Remaining(schedule) ==
    SelectSeq(schedule, LAMBDA e : ~C8_Before(e, request.now, C12_Zone))

\* C12: for days >= 1 and a config whose daily schedule can be generated,
\* the call returns `days` windows with consecutive dates from the local
\* date of now; the first holds the entries of its date's schedule that are
\* >= localized now, every later one the full schedule of its date.
C12_WindowsCoverDays ==
    (response.status # "pending" /\ request.days >= 1
        /\ C12_ScheduleOf(C12_Today).status = "ok") =>
        /\ response.status = "ok"
        /\ Len(response.windows) = request.days
        /\ \A i \in 1..request.days :
              /\ response.windows[i].date = C12_Today + i - 1
              /\ response.windows[i].run_times =
                    IF i = 1 THEN C12_Remaining(C12_ScheduleOf(C12_Today).schedule)
                    ELSE C12_ScheduleOf(C12_Today + i - 1).schedule

\* Two days asked at 08:00 Tokyo time of day 1 with a UTC config (23:00 of
\* day 0 there): the first window is that of day 0, present and empty, the
\* second holds the three runs of day 1.
C12_Witness ==
    /\ response.status = "ok"
    /\ request.now = DT(1, 480, 0, "Asia/Tokyo")
    /\ request.config_given
    /\ request.config.timezone = "UTC"
    /\ request.days = 2
    /\ response.windows[1] = DailyScheduleWindow(0, <<>>)
    /\ response.windows[2].date = 1
    /\ Len(response.windows[2].run_times) = 3

----------------------------------------------------------------------------
(* Claims about the forecasts *)

\* The working timezone of a forecast call.
C13_Zone == coerce_timezone(request.timezone)

\* The minutes of the local wall clock of as_of since the midnight of day 0.
C13_LocalMinutes == C8_InstantMinutes(request.as_of, C13_Zone) + UtcOffset(C13_Zone)

\* The time elapsed since local midnight is positive.
C13_ElapsedPositive == C13_LocalMinutes % MinutesPerDay > 0 \/ request.as_of.micro > 0

\* C13: calculate_daily_projection returns projected_spend = None exactly
\* when no time has elapsed since local midnight, spend_rate_per_hour is
\* None in exactly those cases, and both are numbers otherwise.
C13_NoneIffNothingElapsed ==
    (request.op = "calculate_daily_projection" /\ response.status = "ok") =>
        /\ ~response.value.projected_spend.some <=> ~C13_ElapsedPositive
        /\ response.value.spend_rate_per_hour.some <=> response.value.projected_spend.some

\* 15:00 UTC read in Tokyo is local midnight: nothing has elapsed, both are None.
C13_Witness ==
    /\ request.op = "calculate_daily_projection"
    /\ response.status = "ok"
    /\ request.as_of.tz = "UTC"
    /\ request.as_of.minute = 900
    /\ request.timezone = "None"
    /\ response.value.elapsed = Timedelta(0, 0)
    /\ ~response.value.projected_spend.some
    /\ ~response.value.spend_rate_per_hour.some

\* An exact amount m * 2^e, m a natural number of any size.
C14_Exact(m, e) == [m |-> m, e |-> e]

\* The microseconds of a timedelta.
C14_Micros(td) == BNAdd(BNMul(BN(td.minutes), BN(MicrosPerMinute)), BN(td.micros))

\* x.m and y.m brought to the smaller of the two exponents.
C14_Aligned(x, y) ==
    LET lo == IF x.e < y.e THEN x.e ELSE y.e IN
    [x |-> BNMul(x.m, BNPow2(x.e - lo)), y |-> BNMul(y.m, BNPow2(y.e - lo))]

C14_Equal(x, y) == C14_Aligned(x, y).x = C14_Aligned(x, y).y

\* |x - y| <= y / 2^k.
C14_Within(x, y, k) ==
    LET a == C14_Aligned(x, y)
        diff == IF BNLess(a.x, a.y) THEN BNSub(a.y, a.x) ELSE BNSub(a.x, a.y) IN
    ~BNLess(a.y, BNMul(diff, BNPow2(k)))

\* projected_spend * elapsed and current_spend * day_duration, in microseconds.
C14_ProjectedTimesElapsed ==
    C14_Exact(BNMul(response.value.projected_spend.v.m, C14_Micros(response.value.elapsed)),
              response.value.projected_spend.v.e)

C14_SpendTimesDay ==
    C14_Exact(BNMul(request.current_spend.m, C14_Micros(response.value.day_duration)),
              request.current_spend.e)

\* spend_rate_per_hour * elapsed and current_spend * 3600 s, in microseconds.
C14_RateTimesElapsed ==
    C14_Exact(BNMul(response.value.spend_rate_per_hour.v.m,
                    C14_Micros(response.value.elapsed)),
              response.value.spend_rate_per_hour.v.e)

C14_SpendTimesHour ==
    C14_Exact(BNMul(request.current_spend.m, C14_Micros(Timedelta(60, 0))),
              request.current_spend.e)

C14_Projected ==
    /\ request.op = "calculate_daily_projection"
    /\ response.status = "ok"
    /\ response.value.projected_spend.some

\* C14 as stated: with elapsed > 0, projected_spend * elapsed =
\* current_spend * day_duration and spend_rate_per_hour * elapsed_seconds =
\* current_spend * 3600, exactly.
C14_Original ==
    C14_Projected =>
        /\ response.value.day_duration = Timedelta(MinutesPerDay, 0)
        /\ C14_Equal(C14_ProjectedTimesElapsed, C14_SpendTimesDay)
        /\ C14_Equal(C14_RateTimesElapsed, C14_SpendTimesHour)

\* C14 amended: the two sides of each equation agree up to the rounding of
\* the float operations, a relative difference of at most 2^-51.
C14_LinearUpToRounding ==
    C14_Projected =>
        /\ response.value.day_duration = Timedelta(MinutesPerDay, 0)
        /\ C14_Within(C14_ProjectedTimesElapsed, C14_SpendTimesDay, 51)
        /\ C14_Within(C14_RateTimesElapsed, C14_SpendTimesHour, 51)

\* 249 spent one minute past midnight: the projection is the float next
\* above 358560, though 358560 is a float.
C14_Witness ==
    /\ C14_Projected
    /\ request.current_spend = total_cost(249000000)
    /\ response.value.elapsed = Timedelta(1, 0)
    /\ ~C14_Equal(C14_ProjectedTimesElapsed, C14_SpendTimesDay)
    /\ C14_Within(C14_ProjectedTimesElapsed, C14_SpendTimesDay, 51)

\* The local calendar date of as_of.
C15_LocalDate == CivilDate(C13_LocalMinutes \div MinutesPerDay)

\* The lengths of the months of a year, 2024 being the leap year drawn.
C15_MonthLengths(year) ==
    <<31, IF year = 2024 THEN 29 ELSE 28, 31, 30, 31, 30, 31, 31, 30, 31, 30, 31>>

C15_Paced ==
    /\ request.op = "calculate_monthly_pace"
    /\ response.status = "ok"

C15_Days ==
    /\ response.value.days_elapsed = C15_LocalDate.day
    /\ response.value.days_in_month = C15_MonthLengths(C15_LocalDate.year)[C15_LocalDate.month]

\* projected_month_end_spend * days_elapsed and month_to_date_spend * days_in_month.
C15_ProjectedTimesElapsed ==
    C14_Exact(BNMul(response.value.projected_month_end_spend.m,
                    BN(response.value.days_elapsed)),
              response.value.projected_month_end_spend.e)

C15_SpendTimesMonth ==
    C14_Exact(BNMul(request.month_to_date_spend.m, BN(response.value.days_in_month)),
              request.month_to_date_spend.e)

\* C15 as stated: days_elapsed is the local day of the month, days_in_month
\* the length of that month, projected_month_end_spend * days_elapsed =
\* month_to_date_spend * days_in_month, and on the last day of a month the
\* projection equals month_to_date_spend.
C15_Original ==
    C15_Paced =>
        /\ C15_Days
        /\ C14_Equal(C15_ProjectedTimesElapsed, C15_SpendTimesMonth)
        /\ response.value.days_elapsed = response.value.days_in_month =>
              response.value.projected_month_end_spend = request.month_to_date_spend

\* C15 amended: the same, the two sides of the equation agreeing up to the
\* rounding of the float division and multiplication, a relative difference
\* of at most 2^-51; on the last day of a month that is the difference
\* between the projection and month_to_date_spend.
C15_PaceUpToRounding ==
    C15_Paced =>
        /\ C15_Days
        /\ C14_Within(C15_ProjectedTimesElapsed, C15_SpendTimesMonth, 51)
        /\ response.value.days_elapsed = response.value.days_in_month =>
              C14_Within(C14_Exact(response.value.projected_month_end_spend.m,
                                   response.value.projected_month_end_spend.e),
                         C14_Exact(request.month_to_date_spend.m,
                                   request.month_to_date_spend.e), 51)

\* 249 spent by 23:00 of the 31st of December 2023: 31 days of 31, and a
\* projection that is not 249.
C15_Witness ==
    /\ C15_Paced
    /\ request.as_of = DT(DayNumber(2023, 12, 31), 1380, 0, "Asia/Tokyo")
    /\ request.month_to_date_spend = total_cost(249000000)
    /\ response.value.days_elapsed = 31
    /\ response.value.days_in_month = 31
    /\ response.value.projected_month_end_spend # request.month_to_date_spend

----------------------------------------------------------------------------
(* Claims about the reporting windows *)

\* The local calendar day of as_of in the target zone, and as_of read there.
C16_LocalDay == C13_LocalMinutes \div MinutesPerDay

C16_LocalizedAsOf ==
    DT(C16_LocalDay, C13_LocalMinutes % MinutesPerDay, request.as_of.micro, C13_Zone)

C16_LocalMidnight == DT(C16_LocalDay, 0, 0, C13_Zone)

C16_NextMidnight == DT(C16_LocalDay + 1, 0, 0, C13_Zone)

\* C16: build_daily_query_range returns the window from the local midnight
\* of as_of's local date to the midnight one day later, the localized as_of
\* lying in [start, end); the summary of fetch_daily_cost carries this
\* window as report_start and report_end.
C16_DailyWindow ==
    /\ (request.op = "build_daily_query_range" /\ response.status = "ok") =>
          /\ response.value.start = C16_LocalMidnight
          /\ response.value.end = C16_NextMidnight
          /\ ~DtLess(C16_LocalizedAsOf, response.value.start)
          /\ DtLess(C16_LocalizedAsOf, response.value.end)
    /\ (request.op = "fetch_daily_cost" /\ response.status = "ok") =>
          /\ response.value.report_start = C16_LocalMidnight
          /\ response.value.report_end = C16_NextMidnight

\* A daily fetch as of 15:00 UTC of the 31st of December 2023 by a service
\* without a timezone: the window is the first of January 2024 in Tokyo,
\* starting at the very instant of as_of.
C16_Witness ==
    /\ request.op = "fetch_daily_cost"
    /\ request.as_of = DT(DayNumber(2023, 12, 31), 900, 0, "UTC")
    /\ request.timezone = "None"
    /\ response.status = "ok"
    /\ response.value.as_of = DT(DayNumber(2024, 1, 1), 0, 0, "Asia/Tokyo")
    /\ response.value.report_start = response.value.as_of
    /\ response.value.report_end = DT(DayNumber(2024, 1, 2), 0, 0, "Asia/Tokyo")

\* The first day of the local month of as_of.
C17_FirstOfMonth == C16_LocalDay - (CivilDate(C16_LocalDay).day - 1)

\* The text "SELECT segments.date, metrics.cost_micros FROM customer WHERE
\* segments.date BETWEEN 'first' AND 'last'".
C17_Filter(first, last) ==
    <<"SELECT segments.date, metrics.cost_micros FROM customer", " ", "WHERE", " ",
      "segments.date", " ", "BETWEEN", " ", "'">> \o first
        \o <<"'", " ", "AND", " ", "'">> \o last \o <<"'">>

\* C17: build_month_to_date_query_range returns the window from the local
\* midnight of the first day of as_of's local month to the end of the daily
\* window of the same as_of, the daily window lies within it, and the query
\* built from it filters the dates from the first of the month to as_of's
\* local date, both included.
C17_MonthToDateWindow ==
    /\ (request.op = "build_month_to_date_query_range" /\ response.status = "ok") =>
          LET daily == build_daily_query_range(request.as_of, request.timezone) IN
          /\ response.value.start = DT(C17_FirstOfMonth, 0, 0, C13_Zone)
          /\ CivilDate(C17_FirstOfMonth).day = 1
          /\ response.value.end = daily.end
          /\ response.value.end = C16_NextMidnight
          /\ ~DtLess(daily.start, response.value.start)
    /\ (request.op = "build_cost_query" /\ request.window = "month_to_date"
            /\ response.status = "ok") =>
          response.value = C17_Filter(DateText(C17_FirstOfMonth), DateText(C16_LocalDay))

\* The query of the month-to-date window as of 10:30 of the 29th of
\* February 2024, a naive time read in UTC.
C17_Witness ==
    /\ request.op = "build_cost_query"
    /\ request.window = "month_to_date"
    /\ request.as_of = DT(DayNumber(2024, 2, 29), 630, 0, "naive")
    /\ request.timezone = "UTC"
    /\ request.query_range = QueryRange(DT(DayNumber(2024, 2, 1), 0, 0, "UTC"),
                                       DT(DayNumber(2024, 3, 1), 0, 0, "UTC"))
    /\ response.status = "ok"
    /\ response.value = C17_Filter(<<"2", "0", "2", "4", "-", "0", "2", "-", "0", "1">>,
                                   <<"2", "0", "2", "4", "-", "0", "2", "-", "2", "9">>)

----------------------------------------------------------------------------
(* Claims about the run *)

\* The names of the calls the run has made, in order.
C18_CallNames == [i \in 1..Len(response.calls) |-> response.calls[i].op]

\* The fetches among the calls, in order.
C18_Fetches ==
    SelectSeq(response.calls,
              LAMBDA c : c.op \in {"fetch_daily_cost", "fetch_month_to_date_cost"})

\* The as_of of the run: the reference time given, else the clock.
C18_Reference ==
    IF request.reference_given THEN request.reference_time ELSE request.now

C18_BothFetches ==
    <<[op |-> "fetch_daily_cost", arg |-> C18_Reference],
      [op |-> "fetch_month_to_date_cost", arg |-> C18_Reference]>>

\* The snapshot has been built.
C18_SnapshotBuilt == request.op = "run_once" /\ response.snapshot # NoSnapshot

\* C18: build_forecast_snapshot asks the service for the daily cost and then
\* for the month-to-date cost, once each and with the same as_of, and the
\* snapshot it returns holds the two summaries the service returned.
C18_FetchesOnceDailyFirst ==
    request.op = "run_once" =>
        /\ C18_Fetches = SubSeq(C18_BothFetches, 1, Len(C18_Fetches))
        /\ C18_SnapshotBuilt =>
              /\ C18_Fetches = C18_BothFetches
              /\ response.snapshot.daily_cost = response.daily_summary
              /\ response.snapshot.daily_cost.kind = "daily"
              /\ response.snapshot.month_to_date_cost = response.month_summary
              /\ response.snapshot.month_to_date_cost.kind = "month_to_date"

\* A run at the clock that ended well: the daily fetch returned 3 micros
\* and the month-to-date fetch 4.
C18_Witness ==
    /\ C18_SnapshotBuilt
    /\ ~request.reference_given
    /\ response.status = "ok"
    /\ response.snapshot.daily_cost.total_cost_micros = 3
    /\ response.snapshot.month_to_date_cost.total_cost_micros = 4
    /\ response.calls[1].arg = request.now
    /\ response.calls[2].arg = request.now

C19_Steps ==
    <<"fetch_daily_cost", "fetch_month_to_date_cost", "build_combined_forecast",
      "build_slack_notification_payload", "sender">>

C19_SenderInvoked == \E i \in 1..Len(response.calls) : response.calls[i].op = "sender"

\* C19: the calls of a run follow the order daily fetch, month-to-date
\* fetch, forecast, payload rendering, sender; the sender is called only
\* when both fetches have returned their summaries, and never in a run in
\* which a fetch has raised.
C19_FetchForecastRenderSend ==
    request.op = "run_once" =>
        /\ C18_CallNames = SubSeq(C19_Steps, 1, Len(response.calls))
        /\ C19_SenderInvoked =>
              /\ response.daily_summary # NoSummary
              /\ response.month_summary # NoSummary
              /\ pc = "idle"
        /\ pc = "raised" => ~C19_SenderInvoked
        /\ (response.step = "failed" /\ response.error # "RunError") =>
              /\ pc = "raised"
              /\ ~C19_SenderInvoked

\* The month-to-date fetch raises after its third attempt, the daily
\* summary having been returned: the run ends without a call of the sender.
C19_Witness ==
    /\ request.op = "run_once"
    /\ response.step = "failed"
    /\ kind = "month_to_date"
    /\ pc = "raised"
    /\ attempt = 3
    /\ NumSearch = 3
    /\ response.daily_summary # NoSummary
    /\ C18_CallNames = <<"fetch_daily_cost", "fetch_month_to_date_cost">>

\* The gap of a budget and a projection, both present, is their float
\* difference; it is positive exactly when the projection is below the
\* budget and negative exactly when it is above.
C20_GapOf(gap, budget, projection) ==
    (budget.some /\ projection.some) =>
        /\ gap = SomeFloat(FloatSub(budget.v, projection.v))
        /\ FloatLess(FloatZero, gap.v) <=> FloatLess(projection.v, budget.v)
        /\ FloatLess(gap.v, FloatZero) <=> FloatLess(budget.v, projection.v)

----------------------------------------------------------------------------
(* Claims about the sender *)

\* The calls the run has made on its sender.
C21_SenderCalls == SelectSeq(response.calls, LAMBDA c : c.op = "sender")

\* A RunResult has been returned by run_once.
C21_Returned == request.op = "run_once" /\ response.status = "ok"

\* C21: the sender is invoked at most once per run; when dispatch_slack_alert
\* returns, the sender was called exactly once with the rendered payload and
\* that payload is the one returned; a dry run never invokes the configured
\* sender; every RunResult has delivered = not dry_run.
C21_SenderOnceNeverInDryRun ==
    request.op = "run_once" =>
        /\ Len(C21_SenderCalls) <= 1
        /\ C21_Returned =>
              /\ Len(C21_SenderCalls) = 1
              /\ C21_SenderCalls[1].arg = SlackPayload(response.snapshot.forecast)
              /\ response.payload = C21_SenderCalls[1].arg
              /\ response.delivered = ~request.dry_run
        /\ (request.dry_run /\ Len(C21_SenderCalls) > 0) => response.sender # "configured"

\* A dry run has returned its RunResult.
C21_Witness ==
    /\ C21_Returned
    /\ request.dry_run
    /\ Len(C21_SenderCalls) = 1
    /\ ~response.delivered

\* The sender raised when the run called it.
C22_SenderFailed == request.op = "run_once" /\ response.sender_outcome \in {"RunError", "Exception"}

\* C22: every failure of the sender leaves run_once as a RunError, whether
\* the sender raised RunError or another exception; no RunResult is
\* returned and the sender is not called a second time.
C22_SenderFailureIsRunError ==
    C22_SenderFailed =>
        /\ response.status = "raised"
        /\ response.error = "RunError"
        /\ response.payload = NoPayload
        /\ response.step = "failed"
        /\ Len(C21_SenderCalls) = 1

\* The sender raised an exception that is not a RunError.
C22_Witness ==
    /\ C22_SenderFailed
    /\ response.sender_outcome = "Exception"
    /\ response.error = "RunError"

----------------------------------------------------------------------------
(* Claims about the configuration *)

\* load_slack_config has returned or raised.
C25_Loaded == request.op = "load_slack_config" /\ response.status # "pending"

\* What _parse_bool makes of SLACK_INCLUDE_AVERAGE_DAILY_SPEND, read the way
\* SLACK_INCLUDE_SPEND_RATE is read.
C25_Parsed ==
    parse_bool(request.env["SLACK_INCLUDE_AVERAGE_DAILY_SPEND"],
               SlackNotificationOptionsDefaults.include_average_daily_spend)

\* C25: load_slack_config sets options.include_average_daily_spend from
\* SLACK_INCLUDE_AVERAGE_DAILY_SPEND (a true-like value gives True) and
\* raises ConfigError when the variable holds a text that is no recognised
\* boolean, as it does for SLACK_INCLUDE_SPEND_RATE.
C25_Original ==
    C25_Loaded =>
        /\ C25_Parsed.raised =>
              response.status = "error" /\ response.error = "ConfigError"
        /\ (response.status = "ok" /\ ~C25_Parsed.raised) =>
              response.value.options.include_average_daily_spend = C25_Parsed.value

----------------------------------------------------------------------------
(* Claims about the demo transport *)

\* A fetch through the demo transport has returned its summary.
C23_Fetched == IsFetchRequest /\ response.status = "ok"

\* The total the transport is configured with for the fetch.
C23_Configured ==
    IF request.op = "fetch_daily_cost" THEN request.transport.daily_cost_micros
    ELSE request.transport.month_to_date_cost_micros

\* C23: with the demo transport behind the service, for every reference
\* instant fetch_daily_cost returns the configured daily cost and
\* fetch_month_to_date_cost the configured month-to-date cost.
C23_Original ==
    C23_Fetched =>
        total_cost(response.value.total_cost_micros) = total_cost(C23_Configured)

\* The day of the month of the reference instant in the zone of the service.
C23_LocalDayOfMonth == CivilDate(response.value.as_of.day).day

\* C23 as the code has it: the daily fetch returns the configured daily
\* cost; the month-to-date fetch returns the configured month-to-date cost
\* unless the reference instant falls on the first day of its local month,
\* where its query names one date and the daily cost is returned.
C23_ConfiguredUnlessFirstDay ==
    C23_Fetched =>
        total_cost(response.value.total_cost_micros) =
            total_cost(IF C23_LocalDayOfMonth = 1 THEN request.transport.daily_cost_micros
                       ELSE C23_Configured)

\* The month-to-date fetch of the 15th of June 2024 has returned the
\* month-to-date total of a transport whose totals differ.
C23_Witness ==
    /\ C23_Fetched
    /\ request.op = "fetch_month_to_date_cost"
    /\ request.transport = DemoTransport(1, 3)
    /\ C23_LocalDayOfMonth = 15
    /\ response.value.total_cost_micros = 3

----------------------------------------------------------------------------
(* Claims about retried fetches *)

\* What the rows of one attempt add up to.
RECURSIVE C27_RowsTotal(_)
C27_RowsTotal(rs) ==
    IF rs = <<>> THEN 0
    ELSE extract_cost_micros(Head(rs)).value + C27_RowsTotal(Tail(rs))

\* C27: the total a fetch returns is the sum of the rows of the one
\* successful attempt; what an earlier attempt had summed before it failed
\* with a retryable error is not part of it.
C27_TotalOfSuccessfulAttemptOnly ==
    pc = "returned" => result.total_cost_micros = C27_RowsTotal(rows)

\* A fetch has returned at its second or a later attempt, a failed attempt
\* having summed rows to a total other than zero before it raised.
C27_Witness ==
    /\ pc = "returned"
    /\ attempt > 1
    /\ discarded
    /\ rows # <<>>
    /\ result.total_cost_micros = C27_RowsTotal(rows)
    /\ result.total_cost_micros # 0

\* The fetch is inside _execute_cost_query.
C30_Running == pc \in {"loop", "iterating"}

\* The fetch has returned a summary or raised.
C30_Finished ==
    \/ pc = "returned" /\ result # NoSummary
    \/ pc = "raised" /\ raised # NoError

\* C30: every fetch terminates: whatever the transport and the sleep do, a
\* fetch that has been called eventually returns a summary or raises, and
\* it never makes more than max_attempts attempts.
C30_FetchTerminates ==
    /\ [](attempt <= retry_config.max_attempts /\ NumSearch <= retry_config.max_attempts)
    /\ C30_Running ~> C30_Finished

\* Every attempt the configuration allows has failed in the transport and
\* the fetch has raised.
C30_Witness ==
    /\ pc = "raised"
    /\ retry_config.max_attempts = MaxAttemptsBound
    /\ attempt = retry_config.max_attempts
    /\ transport_failures = retry_config.max_attempts

----------------------------------------------------------------------------
(* Claims about overlapping calls *)

\* The retry state of a call depends on the call alone: it has used as
\* many attempts as it has made searches, at most max_attempts, it starts
\* at a backoff of initial_backoff_seconds, and its sleeps grow from there.
C26_OwnRetryState(frame) ==
    /\ frame.attempt = frame.searches
    /\ frame.searches <= retry_config.max_attempts
    /\ (frame.pc = "loop" /\ frame.searches = 0) =>
          frame.delay = retry_config.initial_backoff_seconds
    /\ \A j \in 1..Len(frame.sleeps) :
          frame.sleeps[j] =
              retry_config.initial_backoff_seconds * Pow(retry_config.backoff_multiplier, j - 1)

\* C26: in every interleaving of the fetches of two snapshots built on the
\* same service each call starts with zero attempts used and a backoff of
\* initial_backoff_seconds, whatever failed in another call, and one
\* snapshot makes at most 2 * max_attempts transport calls.
C26_RetryStatePerCall ==
    request.op = "overlap" =>
        \A r \in Runs :
            /\ response.runs[r].frame.pc # "idle" => C26_OwnRetryState(response.runs[r].frame)
            /\ response.runs[r].calls <= 2 * retry_config.max_attempts

\* The first run enters its month-to-date fetch after a daily fetch that
\* failed before it returned, while the fetch of the second run has failed
\* once and is about to try again.
C26_Witness ==
    /\ request.op = "overlap"
    /\ response.runs[1].stage = "month"
    /\ response.runs[1].frame = enter_cost_query("month_to_date", NoFrame)
    /\ response.runs[1].calls >= 2
    /\ response.runs[2].stage = "daily"
    /\ response.runs[2].frame.pc = "loop"
    /\ response.runs[2].frame.attempt = 1

----------------------------------------------------------------------------
(* Claims about the day of the forecast *)

\* forecast.daily.as_of - forecast.daily.elapsed of the snapshot of the run.
C28_ForecastDayStart ==
    AddDelta(response.snapshot.forecast.daily.as_of,
             -response.snapshot.forecast.daily.elapsed.minutes,
             -response.snapshot.forecast.daily.elapsed.micros)

\* C28: for every snapshot, whatever the timezone of the cost service and
\* the timezone override, the day over which the daily forecast measures
\* elapsed time starts where the day whose cost was fetched starts:
\* forecast.daily.as_of - forecast.daily.elapsed is the instant
\* daily_cost.report_start.
C28_Original ==
    (request.op = "run_once" /\ response.snapshot # NoSnapshot) =>
        AsTimezone(C28_ForecastDayStart, "UTC") =
            AsTimezone(response.snapshot.daily_cost.report_start, "UTC")

----------------------------------------------------------------------------
(* Claims about generate_upcoming_run_times *)

\* generate_upcoming_run_times has returned its list.
C29_Returned == request.op = "generate_upcoming_run_times" /\ response.status = "ok"

\* The config of the call, DailyScheduleConfig() for config=None.
C29_Config == IF request.config_given THEN request.config ELSE DefaultDailyScheduleConfig

\* The zone of the schedule: the one of the config, else the one of now,
\* else the default.
C29_Zone ==
    IF C29_Config.timezone # "None" THEN C29_Config.timezone
    ELSE IF request.now.tz # "naive" THEN request.now.tz
    ELSE DEFAULT_TZ

\* now in the zone of the schedule, and the date it falls on.
C29_LocalNow == Localize(request.now, C29_Zone)

\* The list is in non-decreasing order and holds no entry earlier than now.
C29_OrderedFromNow ==
    /\ \A i \in 1..Len(response.schedule) : \A j \in i..Len(response.schedule) :
          ~DtLess(response.schedule[j], response.schedule[i])
    /\ \A i \in 1..Len(response.schedule) :
          /\ response.schedule[i].tz = C29_Zone
          /\ ~DtLess(response.schedule[i], C29_LocalNow)

\* The list has an entry on the current day.
C29_HasRunToday == response.schedule # <<>> /\ response.schedule[1].day = C29_LocalNow.day

\* find_next_run_datetime(now, generate_daily_schedule(today, cfg)).
C29_NextRun(cfg) ==
    find_next_run_datetime(request.now,
                           generate_daily_schedule(C29_LocalNow.day, cfg).schedule, "None")

\* C29 as stated: the list is in non-decreasing order, holds no entry
\* earlier than now, and its first element, when it lies on the current
\* day, is the instant find_next_run_datetime(now,
\* generate_daily_schedule(today, config)) returns.
C29_Original ==
    C29_Returned =>
        /\ C29_OrderedFromNow
        /\ C29_HasRunToday =>
              /\ C29_NextRun(C29_Config).found
              /\ AsTimezone(C29_NextRun(C29_Config).value, "UTC")
                    = AsTimezone(response.schedule[1], "UTC")

\* C29 as the code has it: the same, the daily schedule being generated
\* from the config with its timezone resolved, which is the zone of now
\* when the config names none and now is aware.
C29_FirstIsNextRunOfResolvedConfig ==
    C29_Returned =>
        /\ C29_OrderedFromNow
        /\ C29_HasRunToday =>
              C29_NextRun([C29_Config EXCEPT !.timezone = C29_Zone])
                  = Found(response.schedule[1])

\* Two days from 14:00 and one microsecond with the default config: the run
\* of 20:00 and the three runs of the next day.
C29_Witness ==
    /\ C29_Returned
    /\ ~request.config_given
    /\ request.now = DT(1, 840, 1, "UTC")
    /\ request.days = 2
    /\ response.schedule = <<DT(1, 1200, 0, "UTC"), DT(2, 480, 0, "UTC"),
                             DT(2, 840, 0, "UTC"), DT(2, 1200, 0, "UTC")>>

----------------------------------------------------------------------------
(* Claims about the recurring scheduler *)

\* run_scheduler has returned a scheduler that offers remove_all_jobs.
C24_SetUp ==
    /\ request.op = "run_scheduler"
    /\ request.offers_remove_all_jobs
    /\ response.status = "returned"

\* The schedule of the day, in the zone of the loaded config.
C24_Schedule ==
    generate_daily_schedule(request.today, load_schedule_config(request.base_env)).schedule

\* The (hour, minute, second) slots of the schedule of the day.
C24_Slots ==
    { <<C24_Schedule[i].minute \div 60, C24_Schedule[i].minute % 60,
        C24_Schedule[i].micro \div 1000000>> : i \in 1..Len(C24_Schedule) }

\* C24: a scheduler that offers remove_all_jobs had it called before any
\* add_job and was never started; on return it holds one cron job for each
\* distinct (hour, minute, second) slot of the schedule of the day and no
\* other, with ids that differ and the timezone of the schedule; each firing
\* of a job has made one call of run_once, with the dry_run flag and the
\* environment of the setup.
C24_ClearedThenOneJobPerSlot ==
    C24_SetUp =>
        /\ response.calls # <<>>
        /\ response.calls[1] = "remove_all_jobs"
        /\ \A i \in 2..Len(response.calls) : response.calls[i] = "add_job"
        /\ Len(response.calls) = 1 + Len(response.jobs)
        /\ Len(response.jobs) = Cardinality(C24_Slots)
        /\ { <<response.jobs[j].hour, response.jobs[j].minute, response.jobs[j].second>> :
                j \in 1..Len(response.jobs) } = C24_Slots
        /\ \A j \in 1..Len(response.jobs) :
              /\ response.jobs[j].trigger = "cron"
              /\ response.jobs[j].func.name = "_job"
              /\ response.jobs[j].timezone
                    = coerce_timezone(request.base_env.ALERT_TIMEZONE)
              /\ \A k \in 1..Len(response.jobs) :
                    response.jobs[j].id = response.jobs[k].id => j = k
        /\ Len(response.run_once_calls) = response.fired
        /\ \A c \in 1..Len(response.run_once_calls) :
              response.run_once_calls[c]
                  = [env_path |-> "None", base_env |-> request.base_env,
                     dry_run |-> request.dry_run]

\* Three runs at 08:00 make one job, set up over two earlier jobs in dry-run
\* mode; it was fired twice, the second time after the caller had changed
\* its environment.
C24_Witness ==
    /\ C24_SetUp
    /\ request.dry_run
    /\ request.jobs = <<EarlierJob(0), EarlierJob(7)>>
    /\ request.base_env.ALERT_RUN_COUNT = 3
    /\ request.base_env.ALERT_END_HOUR = 8
    /\ request.base_env.ALERT_END_MINUTE = 0
    /\ Len(response.jobs) = 1
    /\ response.caller_env # request.base_env
    /\ response.fired = 2

====
